---- MODULE Spec2Model ----
\* Product CRUD service: domain validation, use case, PostgreSQL repository
\* and HTTP delivery, modelled as a state machine over the products table.
EXTENDS Integers, Sequences, FiniteSets, TLC

VARIABLES
    rows,      \* products table: id of every stored row -> the row
    nextId,    \* next value of the SERIAL sequence behind products.id
    clock,     \* database clock, NOW(), in ticks
    created,   \* history: id -> record returned by Create, while the row is unmutated
    deleted,   \* history: the ids a Delete has removed
    phase,     \* where the process is: "starting", "connected", "serving",
               \* "stopped" (main returned) or "fatal" (log Fatal, exit 1)
    conn,      \* the *sql.DB of main: "none", "open" or "closed"
    last,      \* the last call: its inputs, what it returned and which calls it made
    inflight   \* the requests being served concurrently: slot -> request

vars == <<rows, nextId, clock, created, deleted, phase, conn, last, inflight>>

\* ------------------------------------------------------------------ bounds
MaxRows == 1       \* rows ever inserted (values drawn from the sequence)
MaxStored == 2     \* rows ever inserted, in the specification of the row lifecycle
MaxClock == 2      \* last tick of the database clock
TicksPerSecond == 2  \* clock ticks in one second of an RFC 3339 time

\* --------------------------------------------------------- integer widths
\* A Go int64 (and an int, 64 bits wide on the platforms the service is
\* built for) is the record [top, hi, lo] standing for
\* top * 2^62 + hi * 2^31 + lo with 0 <= hi, lo < 2^31, so that every
\* 64-bit value can be written with the checker's 32-bit integers: top is
\* -2 .. 1 for an int64, and up to 3 for the magnitude of a digit string
\* that is being parsed.
MaxInt32 == 2147483647

I64(n) ==
    IF n >= 0 THEN [top |-> 0, hi |-> 0, lo |-> n]
    ELSE [top |-> -1, hi |-> MaxInt32, lo |-> (MaxInt32 + n) + 1]

MaxInt64 == [top |-> 1, hi |-> MaxInt32, lo |-> MaxInt32]
MinInt64 == [top |-> -2, hi |-> 0, lo |-> 0]
MaxUint64 == [top |-> 3, hi |-> MaxInt32, lo |-> MaxInt32]

\* -1, 0 or 1 as the value is negative, zero or positive
Sign(x) ==
    IF x.top < 0 THEN -1
    ELSE IF x.top = 0 /\ x.hi = 0 /\ x.lo = 0 THEN 0
    ELSE 1

\* x < y and x <= y
Less64(x, y) ==
    \/ x.top < y.top
    \/ x.top = y.top /\ x.hi < y.hi
    \/ x.top = y.top /\ x.hi = y.hi /\ x.lo < y.lo

Leq64(x, y) == x = y \/ Less64(x, y)

\* the value fits the INTEGER (int4) column type
FitsInteger(x) ==
    \/ x.top = 0 /\ x.hi = 0
    \/ x.top = -1 /\ x.hi = MaxInt32

\* the value as a plain integer, for values that fit 32 bits
ToInt(x) == IF x.top = 0 THEN x.lo ELSE (x.lo - MaxInt32) - 1

\* 10 * a + c of a 31-bit limb and a carry below 10: [sum, carry], the
\* limb taken in halves of 15 and 16 bits so that no product leaves 32 bits
MulLimb(a, c) ==
    LET low == 10 * (a % 65536) + c
        high == 10 * (a \div 65536) + (low \div 65536)
    IN  [sum |-> (high % 32768) * 65536 + (low % 65536),
         carry |-> high \div 32768]

\* 10 * x + d for x >= 0 and a digit d
MulAdd10(x, d) ==
    LET l == MulLimb(x.lo, d)
        h == MulLimb(x.hi, l.carry)
    IN  [top |-> 10 * x.top + h.carry, hi |-> h.sum, lo |-> l.sum]

\* -x
Neg64(x) ==
    IF x.lo = 0 /\ x.hi = 0 THEN [top |-> 0 - x.top, hi |-> 0, lo |-> 0]
    ELSE IF x.lo = 0
        THEN [top |-> (0 - x.top) - 1, hi |-> (MaxInt32 - x.hi) + 1, lo |-> 0]
    ELSE [top |-> (0 - x.top) - 1, hi |-> MaxInt32 - x.hi,
          lo |-> (MaxInt32 - x.lo) + 1]

\* ---------------------------------------------------------------- strings
\* A string is [ascii, wide]: `ascii` one-byte characters followed by
\* `wide` three-byte characters (UTF-8). len() counts bytes, the binding
\* validator and VARCHAR(n) count characters.
Str(a, w) == [ascii |-> a, wide |-> w]
EmptyStr == Str(0, 0)
ByteLen(s) == s.ascii + 3 * s.wide
RuneLen(s) == s.ascii + s.wide

\* sql.NullString
NullString(s, v) == [String |-> s, Valid |-> v]
NullAbsent == NullString(EmptyStr, FALSE)

\* ----------------------------------------------------------------- errors
\* An error value: `is` holds the sentinels errors.Is() recognises in its
\* chain, `msg` the segments of Error(), which the code joins with ": ".
Nil == [nil |-> TRUE, is |-> {}, msg |-> <<>>]
NewError(text) == [nil |-> FALSE, is |-> {}, msg |-> <<text>>]
Sentinel(name, text) == [nil |-> FALSE, is |-> {name}, msg |-> <<text>>]

ErrProductNotFound == Sentinel("ErrProductNotFound", "product not found")
ErrInvalidProduct == Sentinel("ErrInvalidProduct", "invalid product data")
ErrDuplicateProduct ==
    Sentinel("ErrDuplicateProduct", "product with this name already exists")

\* errors.Is(err, target) for a sentinel target
ErrorsIs(err, target) == ~err.nil /\ target.is \subseteq err.is

\* fmt.Errorf("%w: %s", sentinel, text)
WrapSentinel(sentinel, text) ==
    [nil |-> FALSE, is |-> sentinel.is, msg |-> sentinel.msg \o text]

\* fmt.Errorf("<context>: %w", err)
WrapContext(context, err) ==
    [nil |-> FALSE, is |-> err.is, msg |-> <<context>> \o err.msg]

\* ---------------------------------------------------------------- product
\* domain.Product; price is in thousandths (29990 is 29.99), times in ticks,
\* 0 being the zero time.Time.
Product(id, storeId, name, desc, amount, price, createdAt, updatedAt) ==
    [ID |-> id, StoreID |-> storeId, Name |-> name, Description |-> desc,
     Amount |-> amount, Price |-> price,
     CreatedAt |-> createdAt, UpdatedAt |-> updatedAt]

NewProduct(storeId, name, desc, amount, price) ==
    Product(I64(0), storeId, name, desc, amount, price, 0, 0)

ZeroProduct == NewProduct(I64(0), EmptyStr, NullAbsent, I64(0), 0)

IsValidPrice(p) == p.Price > 0

\* Validate testing the price before the other fields
ValidatePriceFirst(p) ==
    IF ~IsValidPrice(p) THEN NewError("price must be positive")
    ELSE IF Sign(p.StoreID) <= 0 THEN NewError("store_id must be positive")
    ELSE IF p.Name = EmptyStr THEN NewError("name is required")
    ELSE IF ByteLen(p.Name) > 100
        THEN NewError("name must not exceed 100 characters")
    ELSE IF p.Description.Valid /\ ByteLen(p.Description.String) > 1000
        THEN NewError("description must not exceed 1000 characters")
    ELSE IF Sign(p.Amount) < 0 THEN NewError("amount must be non-negative")
    ELSE Nil

\* Validate with the description rule applied whatever the presence flag
ValidateIgnoringPresence(p) ==
    IF Sign(p.StoreID) <= 0 THEN NewError("store_id must be positive")
    ELSE IF p.Name = EmptyStr THEN NewError("name is required")
    ELSE IF ByteLen(p.Name) > 100
        THEN NewError("name must not exceed 100 characters")
    ELSE IF ByteLen(p.Description.String) > 1000
        THEN NewError("description must not exceed 1000 characters")
    ELSE IF Sign(p.Amount) < 0 THEN NewError("amount must be non-negative")
    ELSE IF ~IsValidPrice(p) THEN NewError("price must be positive")
    ELSE Nil

Validate(p) ==
    IF Sign(p.StoreID) <= 0 THEN NewError("store_id must be positive")
    ELSE IF p.Name = EmptyStr THEN NewError("name is required")
    ELSE IF ByteLen(p.Name) > 100
        THEN NewError("name must not exceed 100 characters")
    ELSE IF p.Description.Valid /\ ByteLen(p.Description.String) > 1000
        THEN NewError("description must not exceed 1000 characters")
    ELSE IF Sign(p.Amount) < 0 THEN NewError("amount must be non-negative")
    ELSE IF ~IsValidPrice(p) THEN NewError("price must be positive")
    ELSE Nil

\* --------------------------------------------------------------- database
\* The products table of migrations/001: id SERIAL, store_id INTEGER,
\* name VARCHAR(100), description TEXT NULL, amount INTEGER,
\* price NUMERIC(12,2), created_at / updated_at TIMESTAMP.
\* A database value db is [rows, nextId, clock]; rows maps the id of every
\* stored row to the row.

\* NUMERIC(12,2): the server rounds half away from zero to two decimals
RoundNumeric2(price) ==
    IF price >= 0 THEN ((price + 5) \div 10) * 10
    ELSE 0 - ((((0 - price) + 5) \div 10) * 10)

\* what happens to one statement besides its execution: "none" nothing;
\* "canceled" the context is cancelled and "deadline" its deadline passes
\* before the server executes the statement; "query_canceled" the server
\* ends the statement on the driver's cancel request (SQLSTATE 57014);
\* "unique" it reports SQLSTATE 23505; "down" the connection fails before
\* the statement is executed. The `_late` faults reach the call after the
\* server has executed (and committed) the statement, while the reply is
\* read or the rows are iterated; the `_scan` faults close the rows
\* between rows.Next and rows.Scan.
EarlyFaults == {"canceled", "deadline", "query_canceled", "unique", "down"}
LateFaults == {"canceled_late", "deadline_late", "down_late"}
ScanFaults == {"canceled_scan", "deadline_scan"}
Faults == {"none"} \cup EarlyFaults \cup LateFaults \cup ScanFaults

\* the server has executed the statement although the call fails
Executed(fault) == fault \in LateFaults \cup ScanFaults

\* the faults of a context that is cancelled or past its deadline
ContextFaults ==
    {"canceled", "deadline", "query_canceled", "canceled_late",
     "deadline_late", "canceled_scan", "deadline_scan"}

\* driver errors
ErrNoRows == Sentinel("sql.ErrNoRows", "sql: no rows in result set")
ErrCanceled == Sentinel("context.Canceled", "context canceled")
ErrDeadlineExceeded ==
    Sentinel("context.DeadlineExceeded", "context deadline exceeded")
ErrBadConn == Sentinel("driver.ErrBadConn", "driver: bad connection")
PqError(code) == Sentinel("pq.Error:" \o code, "pq: SQLSTATE " \o code)

FaultError(fault) ==
    CASE fault \in {"canceled", "canceled_late", "canceled_scan"} -> ErrCanceled
      [] fault \in {"deadline", "deadline_late", "deadline_scan"}
            -> ErrDeadlineExceeded
      [] fault = "query_canceled" -> PqError("57014")
      [] fault = "unique" -> PqError("23505")
      [] fault \in {"down", "down_late"} -> ErrBadConn
      [] OTHER -> Nil

\* the error of storing the column values, Nil when the row is accepted
ColumnError(storeId, name, amount) ==
    IF ~FitsInteger(storeId) \/ ~FitsInteger(amount) THEN PqError("22003")
    ELSE IF RuneLen(name) > 100 THEN PqError("22001")
    ELSE Nil

nullStringFromString(s) ==
    IF s = EmptyStr THEN NullAbsent ELSE NullString(s, TRUE)

\* the row id, or none: ids outside the table's key range match no row
HasRow(db, id) == FitsInteger(id) /\ ToInt(id) \in DOMAIN db.rows

\* INSERT giving the new row the lowest id no stored row has, instead of
\* the next value of the sequence
SqlInsertReusingId(db, storeId, name, desc, amount, price, fault) ==
    LET colErr == ColumnError(storeId, name, amount)
        free == CHOOSE i \in 1..db.nextId :
                    /\ i \notin DOMAIN db.rows
                    /\ \A j \in 1..(i - 1) : j \in DOMAIN db.rows
        row == Product(I64(free), storeId, name, desc, amount,
                       RoundNumeric2(price), db.clock, db.clock)
    IN  IF fault = "unique"
            THEN [db |-> [db EXCEPT !.nextId = db.nextId + 1],
                  row |-> ZeroProduct, err |-> FaultError(fault)]
        ELSE IF fault # "none" /\ ~Executed(fault)
            THEN [db |-> db, row |-> ZeroProduct, err |-> FaultError(fault)]
        ELSE IF ~colErr.nil
            THEN [db |-> db, row |-> ZeroProduct,
                  err |-> IF fault = "none" THEN colErr ELSE FaultError(fault)]
        ELSE [db |-> [db EXCEPT !.rows = (free :> row) @@ db.rows,
                                !.nextId = db.nextId + 1],
              row |-> IF fault = "none" THEN row ELSE ZeroProduct,
              err |-> FaultError(fault)]

\* INSERT ... RETURNING: the outcome [db, row, err]. A unique violation is
\* raised after nextval() has drawn the id, and a sequence is not rolled
\* back; a fault after the execution leaves the row stored and the call
\* with the error.
SqlInsert(db, storeId, name, desc, amount, price, fault) ==
    LET colErr == ColumnError(storeId, name, amount)
        row == Product(I64(db.nextId), storeId, name, desc, amount,
                       RoundNumeric2(price), db.clock, db.clock)
    IN  IF fault = "unique"
            THEN [db |-> [db EXCEPT !.nextId = db.nextId + 1],
                  row |-> ZeroProduct, err |-> FaultError(fault)]
        ELSE IF fault # "none" /\ ~Executed(fault)
            THEN [db |-> db, row |-> ZeroProduct, err |-> FaultError(fault)]
        ELSE IF ~colErr.nil
            THEN [db |-> db, row |-> ZeroProduct,
                  err |-> IF fault = "none" THEN colErr ELSE FaultError(fault)]
        ELSE [db |-> [db EXCEPT !.rows = (db.nextId :> row) @@ db.rows,
                                !.nextId = db.nextId + 1],
              row |-> IF fault = "none" THEN row ELSE ZeroProduct,
              err |-> FaultError(fault)]

\* SELECT ... WHERE id = $1
SqlSelectByID(db, id, fault) ==
    IF fault # "none"
        THEN [db |-> db, row |-> ZeroProduct, err |-> FaultError(fault)]
    ELSE IF ~FitsInteger(id)
        THEN [db |-> db, row |-> ZeroProduct, err |-> PqError("22003")]
    ELSE IF ~HasRow(db, id)
        THEN [db |-> db, row |-> ZeroProduct, err |-> ErrNoRows]
    ELSE [db |-> db, row |-> db.rows[ToInt(id)], err |-> Nil]

\* UPDATE ... SET ..., updated_at = NOW() WHERE id = $6 RETURNING ...; a
\* fault after the execution leaves the row replaced and the call with
\* the error
SqlUpdate(db, id, storeId, name, desc, amount, price, fault) ==
    LET colErr == ColumnError(storeId, name, amount)
        old == db.rows[ToInt(id)]
        row == Product(old.ID, storeId, name, desc, amount,
                       RoundNumeric2(price), old.CreatedAt, db.clock)
    IN  IF fault # "none" /\ ~Executed(fault)
            THEN [db |-> db, row |-> ZeroProduct, err |-> FaultError(fault)]
        ELSE IF fault # "none" /\ (~FitsInteger(id) \/ ~colErr.nil
                                   \/ ~HasRow(db, id))
            THEN [db |-> db, row |-> ZeroProduct, err |-> FaultError(fault)]
        ELSE IF ~FitsInteger(id)
            THEN [db |-> db, row |-> ZeroProduct, err |-> PqError("22003")]
        ELSE IF ~colErr.nil
            THEN [db |-> db, row |-> ZeroProduct, err |-> colErr]
        ELSE IF ~HasRow(db, id)
            THEN [db |-> db, row |-> ZeroProduct, err |-> ErrNoRows]
        ELSE [db |-> [db EXCEPT !.rows = [@ EXCEPT ![ToInt(id)] = row]],
              row |-> IF fault = "none" THEN row ELSE ZeroProduct,
              err |-> FaultError(fault)]

\* DELETE ... WHERE id = $1: the outcome [db, affected, err]; a fault
\* after the execution leaves the row deleted and the call with the error
SqlDelete(db, id, fault) ==
    IF fault # "none" /\ ~Executed(fault)
        THEN [db |-> db, affected |-> 0, err |-> FaultError(fault)]
    ELSE IF fault # "none" /\ ~HasRow(db, id)
        THEN [db |-> db, affected |-> 0, err |-> FaultError(fault)]
    ELSE IF ~FitsInteger(id)
        THEN [db |-> db, affected |-> 0, err |-> PqError("22003")]
    ELSE IF ~HasRow(db, id)
        THEN [db |-> db, affected |-> 0, err |-> Nil]
    ELSE [db |-> [db EXCEPT !.rows =
                     [i \in (DOMAIN db.rows) \ {ToInt(id)} |-> db.rows[i]]],
          affected |-> IF fault = "none" THEN 1 ELSE 0,
          err |-> FaultError(fault)]

\* the orders in which ORDER BY created_at DESC may return the rows: every
\* arrangement of the ids with created_at not increasing (ties in any order)
RowOrders(db) ==
    LET ids == DOMAIN db.rows
        n == Cardinality(ids)
    IN  {o \in [1..n -> ids] :
            /\ \A i, j \in 1..n : i # j => o[i] # o[j]
            /\ \A i \in 1..n : \A j \in 1..n :
                  i < j => db.rows[o[i]].CreatedAt >= db.rows[o[j]].CreatedAt}

Min(a, b) == IF a < b THEN a ELSE b

\* SELECT ... ORDER BY created_at DESC LIMIT $1 OFFSET $2, the server
\* returning the rows in the order `order`: the outcome [db, list, err, at].
\* The server computes and checks the offset before the limit. `at` says
\* where the call meets the error: "query" in QueryContext, "scan" in
\* rows.Scan of the first row, "rows" in rows.Err() after the loop.
SqlSelectPage(db, limit, offset, order, fault) ==
    LET n == Len(order)
        from == IF FitsInteger(offset) THEN Min(n, ToInt(offset)) ELSE n
        count == IF FitsInteger(limit) THEN Min(n - from, ToInt(limit))
                 ELSE n - from
        rejected == IF Sign(offset) < 0 THEN PqError("2201X")
                    ELSE IF Sign(limit) < 0 THEN PqError("2201W")
                    ELSE Nil
    IN  IF fault # "none" /\ (~Executed(fault) \/ ~rejected.nil)
            THEN [db |-> db, list |-> <<>>, err |-> FaultError(fault),
                  at |-> "query"]
        ELSE IF ~rejected.nil
            THEN [db |-> db, list |-> <<>>, err |-> rejected, at |-> "query"]
        ELSE IF fault \in ScanFaults /\ count > 0
            THEN [db |-> db, list |-> <<>>, err |-> FaultError(fault),
                  at |-> "scan"]
        ELSE IF fault # "none"
            THEN [db |-> db, list |-> <<>>, err |-> FaultError(fault),
                  at |-> "rows"]
        ELSE [db |-> db,
              list |-> [k \in 1..count |-> db.rows[order[from + k]]],
              err |-> Nil, at |-> "none"]

\* ------------------------------------------------------------- repository
\* A repository or use-case call yields
\* [db, product, list, err, calls]: the database after it, the product or
\* the list it returns, its error, and the repository calls it made.
Outcome(db, product, list, err, calls) ==
    [db |-> db, product |-> product, list |-> list, err |-> err,
     calls |-> calls]

RepoCall(method, id, product, limit, offset) ==
    [method |-> method, id |-> id, product |-> product,
     limit |-> limit, offset |-> offset]

\* Create returning its argument with the id and the times of the new row
\* instead of the row the statement returns
RepoCreateEchoesInput(db, product, fault) ==
    LET r == SqlInsert(db, product.StoreID, product.Name,
                       nullStringFromString(product.Description.String),
                       product.Amount, product.Price, fault)
        call == <<RepoCall("Create", I64(0), product, I64(0), I64(0))>>
    IN  IF ~r.err.nil
            THEN IF r.err = PqError("23505")
                THEN Outcome(r.db, ZeroProduct, <<>>, ErrDuplicateProduct, call)
                ELSE Outcome(r.db, ZeroProduct, <<>>,
                             WrapContext("failed to create product", r.err),
                             call)
        ELSE Outcome(r.db,
                     [product EXCEPT !.ID = r.row.ID,
                                     !.CreatedAt = r.row.CreatedAt,
                                     !.UpdatedAt = r.row.UpdatedAt],
                     <<>>, Nil, call)

RepoCreate(db, product, fault) ==
    LET r == SqlInsert(db, product.StoreID, product.Name,
                       nullStringFromString(product.Description.String),
                       product.Amount, product.Price, fault)
        call == <<RepoCall("Create", I64(0), product, I64(0), I64(0))>>
    IN  IF ~r.err.nil
            THEN IF r.err = PqError("23505")
                THEN Outcome(r.db, ZeroProduct, <<>>, ErrDuplicateProduct, call)
                ELSE Outcome(r.db, ZeroProduct, <<>>,
                             WrapContext("failed to create product", r.err),
                             call)
        ELSE Outcome(r.db, r.row, <<>>, Nil, call)

\* GetByID reporting every failure of the query as NotFound
RepoGetByIDAnyErrorNotFound(db, id, fault) ==
    LET r == SqlSelectByID(db, id, fault)
        call == <<RepoCall("GetByID", id, ZeroProduct, I64(0), I64(0))>>
    IN  IF ~r.err.nil
            THEN Outcome(r.db, ZeroProduct, <<>>, ErrProductNotFound, call)
        ELSE Outcome(r.db, r.row, <<>>, Nil, call)

RepoGetByID(db, id, fault) ==
    LET r == SqlSelectByID(db, id, fault)
        call == <<RepoCall("GetByID", id, ZeroProduct, I64(0), I64(0))>>
    IN  IF ~r.err.nil
            THEN IF r.err = ErrNoRows
                THEN Outcome(r.db, ZeroProduct, <<>>, ErrProductNotFound, call)
                ELSE Outcome(r.db, ZeroProduct, <<>>,
                             WrapContext("failed to get product", r.err), call)
        ELSE Outcome(r.db, r.row, <<>>, Nil, call)

\* GetAll handing offset and limit to the statement in the wrong order
RepoGetAllSwapped(db, limit, offset, order, fault) ==
    LET r == SqlSelectPage(db, offset, limit, order, fault)
        call == <<RepoCall("GetAll", I64(0), ZeroProduct, limit, offset)>>
    IN  IF r.at = "query"
            THEN Outcome(r.db, ZeroProduct, <<>>,
                         WrapContext("failed to get products", r.err), call)
        ELSE IF r.at = "scan"
            THEN Outcome(r.db, ZeroProduct, <<>>,
                         WrapContext("failed to scan product", r.err), call)
        ELSE IF r.at = "rows"
            THEN Outcome(r.db, ZeroProduct, <<>>,
                         WrapContext("failed to iterate over products", r.err),
                         call)
        ELSE Outcome(r.db, ZeroProduct, r.list, Nil, call)

RepoGetAll(db, limit, offset, order, fault) ==
    LET r == SqlSelectPage(db, limit, offset, order, fault)
        call == <<RepoCall("GetAll", I64(0), ZeroProduct, limit, offset)>>
    IN  IF r.at = "query"
            THEN Outcome(r.db, ZeroProduct, <<>>,
                         WrapContext("failed to get products", r.err), call)
        ELSE IF r.at = "scan"
            THEN Outcome(r.db, ZeroProduct, <<>>,
                         WrapContext("failed to scan product", r.err), call)
        ELSE IF r.at = "rows"
            THEN Outcome(r.db, ZeroProduct, <<>>,
                         WrapContext("failed to iterate over products", r.err),
                         call)
        ELSE Outcome(r.db, ZeroProduct, r.list, Nil, call)

RepoUpdate(db, id, product, fault) ==
    LET r == SqlUpdate(db, id, product.StoreID, product.Name,
                       nullStringFromString(product.Description.String),
                       product.Amount, product.Price, fault)
        call == <<RepoCall("Update", id, product, I64(0), I64(0))>>
    IN  IF ~r.err.nil
            THEN IF r.err = ErrNoRows
                THEN Outcome(r.db, ZeroProduct, <<>>, ErrProductNotFound, call)
            ELSE IF r.err = PqError("23505")
                THEN Outcome(r.db, ZeroProduct, <<>>, ErrDuplicateProduct, call)
            ELSE Outcome(r.db, ZeroProduct, <<>>,
                         WrapContext("failed to update product", r.err), call)
        ELSE Outcome(r.db, r.row, <<>>, Nil, call)

RepoDeleteIgnoringRowsAffected(db, id, fault) ==
    LET r == SqlDelete(db, id, fault)
        call == <<RepoCall("Delete", id, ZeroProduct, I64(0), I64(0))>>
    IN  IF ~r.err.nil
            THEN Outcome(r.db, ZeroProduct, <<>>,
                         WrapContext("failed to delete product", r.err), call)
        ELSE Outcome(r.db, ZeroProduct, <<>>, Nil, call)

RepoDelete(db, id, fault) ==
    LET r == SqlDelete(db, id, fault)
        call == <<RepoCall("Delete", id, ZeroProduct, I64(0), I64(0))>>
    IN  IF ~r.err.nil
            THEN Outcome(r.db, ZeroProduct, <<>>,
                         WrapContext("failed to delete product", r.err), call)
        ELSE IF r.affected = 0
            THEN Outcome(r.db, ZeroProduct, <<>>, ErrProductNotFound, call)
        ELSE Outcome(r.db, ZeroProduct, <<>>, Nil, call)

\* --------------------------------------------------------------- use case
\* CreateProduct handing Validate's error on as it is
CreateProductUnwrapped(db, product, fault) ==
    LET verr == Validate(product)
        r == RepoCreate(db, product, fault)
    IN  IF ~verr.nil
            THEN Outcome(db, ZeroProduct, <<>>, verr, <<>>)
        ELSE IF ~r.err.nil
            THEN Outcome(r.db, ZeroProduct, <<>>,
                         WrapContext("failed to create product", r.err),
                         r.calls)
        ELSE r

\* CreateProduct formatting the repository error with %v, which keeps the
\* text and loses the chain
CreateProductFlattening(db, product, fault) ==
    LET verr == Validate(product)
        r == RepoCreate(db, product, fault)
    IN  IF ~verr.nil
            THEN Outcome(db, ZeroProduct, <<>>,
                         WrapSentinel(ErrInvalidProduct, verr.msg), <<>>)
        ELSE IF ~r.err.nil
            THEN Outcome(r.db, ZeroProduct, <<>>,
                         [nil |-> FALSE, is |-> {},
                          msg |-> <<"failed to create product">> \o r.err.msg],
                         r.calls)
        ELSE r

CreateProduct(db, product, fault) ==
    LET verr == Validate(product)
        r == RepoCreate(db, product, fault)
    IN  IF ~verr.nil
            THEN Outcome(db, ZeroProduct, <<>>,
                         WrapSentinel(ErrInvalidProduct, verr.msg), <<>>)
        ELSE IF ~r.err.nil
            THEN Outcome(r.db, ZeroProduct, <<>>,
                         WrapContext("failed to create product", r.err),
                         r.calls)
        ELSE r

\* GetProduct rejecting negative ids only
GetProductNegativeOnly(db, id, fault) ==
    LET r == RepoGetByID(db, id, fault)
    IN  IF Sign(id) < 0
            THEN Outcome(db, ZeroProduct, <<>>,
                         WrapSentinel(ErrInvalidProduct,
                                      <<"invalid product ID">>), <<>>)
        ELSE r

GetProduct(db, id, fault) ==
    LET r == RepoGetByID(db, id, fault)
    IN  IF Sign(id) <= 0
            THEN Outcome(db, ZeroProduct, <<>>,
                         WrapSentinel(ErrInvalidProduct,
                                      <<"invalid product ID">>), <<>>)
        ELSE r

\* NormalizeLimit defaulting negative limits only
NormalizeLimitKeepsZero(limit) ==
    IF Sign(limit) < 0 THEN I64(10)
    ELSE IF Less64(I64(100), limit) THEN I64(100) ELSE limit

NormalizeLimit(limit) ==
    IF Sign(limit) <= 0 THEN I64(10)
    ELSE IF Less64(I64(100), limit) THEN I64(100) ELSE limit

NormalizeOffset(offset) == IF Sign(offset) < 0 THEN I64(0) ELSE offset

GetProducts(db, limit, offset, order, fault) ==
    LET r == RepoGetAll(db, NormalizeLimit(limit), NormalizeOffset(offset),
                        order, fault)
    IN  IF ~r.err.nil
            THEN Outcome(r.db, ZeroProduct, <<>>,
                         WrapContext("failed to get products", r.err), r.calls)
        ELSE r

\* UpdateProduct without the call of Validate
UpdateProductUnvalidated(db, id, product, fault) ==
    LET r == RepoUpdate(db, id, product, fault)
    IN  IF Sign(id) <= 0
            THEN Outcome(db, ZeroProduct, <<>>,
                         WrapSentinel(ErrInvalidProduct,
                                      <<"invalid product ID">>), <<>>)
        ELSE r

UpdateProduct(db, id, product, fault) ==
    LET verr == Validate(product)
        r == RepoUpdate(db, id, product, fault)
    IN  IF Sign(id) <= 0
            THEN Outcome(db, ZeroProduct, <<>>,
                         WrapSentinel(ErrInvalidProduct,
                                      <<"invalid product ID">>), <<>>)
        ELSE IF ~verr.nil
            THEN Outcome(db, ZeroProduct, <<>>,
                         WrapSentinel(ErrInvalidProduct, verr.msg), <<>>)
        ELSE r

\* DeleteProduct calling the repository once more after an error that is
\* not NotFound
DeleteProductRetrying(db, id, fault) ==
    LET r == RepoDelete(db, id, fault)
        again == RepoDelete(r.db, id, fault)
    IN  IF Sign(id) <= 0
            THEN Outcome(db, ZeroProduct, <<>>,
                         WrapSentinel(ErrInvalidProduct,
                                      <<"invalid product ID">>), <<>>)
        ELSE IF ~r.err.nil /\ ~ErrorsIs(r.err, ErrProductNotFound)
            THEN Outcome(again.db, ZeroProduct, <<>>, again.err,
                         r.calls \o again.calls)
        ELSE r

DeleteProduct(db, id, fault) ==
    LET r == RepoDelete(db, id, fault)
    IN  IF Sign(id) <= 0
            THEN Outcome(db, ZeroProduct, <<>>,
                         WrapSentinel(ErrInvalidProduct,
                                      <<"invalid product ID">>), <<>>)
        ELSE r

\* ------------------------------------------------------------ HTTP: input
\* A path or query parameter is a sequence of one-character strings.
Digits == <<"0", "1", "2", "3", "4", "5", "6", "7", "8", "9">>

IsDigit(c) == \E d \in 1..10 : Digits[d] = c

DigitVal(c) == (CHOOSE d \in 1..10 : Digits[d] = c) - 1

\* strconv.ParseUint(s, 10, 64) on a non-empty s: [err, val], reading the
\* characters in order and stopping at the first that is no digit ("syntax",
\* value 0) or that takes the value past 2^64 - 1 ("range", value 2^64 - 1),
\* whichever comes first
RECURSIVE DigitsValue(_, _)
DigitsValue(s, acc) ==
    IF s = <<>> THEN [err |-> "none", val |-> acc]
    ELSE IF ~IsDigit(Head(s)) THEN [err |-> "syntax", val |-> I64(0)]
    ELSE CHOOSE v \in
             {IF next.top >= 4 THEN [err |-> "range", val |-> MaxUint64]
              ELSE DigitsValue(Tail(s), next) :
                  next \in {MulAdd10(acc, DigitVal(Head(s)))}} : TRUE

\* strconv.ParseInt(s, 10, 64): [ok, val]. val is 0 with a syntax error
\* and the nearest int64 with a range error: the magnitude is read as an
\* unsigned number and then compared with 2^63.
ParseInt(s) ==
    LET signed == s # <<>> /\ Head(s) \in {"+", "-"}
        neg == signed /\ Head(s) = "-"
        body == IF signed THEN Tail(s) ELSE s
        un == DigitsValue(body, I64(0))
        cutoff == Neg64(MinInt64)
    IN  IF body = <<>> \/ un.err = "syntax"
            THEN [ok |-> FALSE, val |-> I64(0)]
        ELSE IF ~neg /\ ~Less64(un.val, cutoff)
            THEN [ok |-> FALSE, val |-> MaxInt64]
        ELSE IF neg /\ Less64(cutoff, un.val)
            THEN [ok |-> FALSE, val |-> MinInt64]
        ELSE [ok |-> un.err = "none",
              val |-> IF neg THEN Neg64(un.val) ELSE un.val]

\* strconv.Atoi(s): [ok, val], an int being 64 bits wide
Atoi(s) == ParseInt(s)

\* A request body is [kind, has, store_id, name, description, amount,
\* price]: kind "invalid_json" for a body the JSON decoder rejects, else
\* "object" with the members named in `has`.
Body(kind, has, storeId, name, desc, amount, price) ==
    [kind |-> kind, has |-> has, store_id |-> storeId, name |-> name,
     description |-> desc, amount |-> amount, price |-> price]

NoBody == Body("object", {}, I64(0), EmptyStr, EmptyStr, I64(0), 0)

\* dto.CreateProductRequest / dto.UpdateProductRequest after JSON decoding:
\* an absent member leaves the field at its zero value
DecodeJSON(body) ==
    [StoreID |-> IF "store_id" \in body.has THEN body.store_id ELSE I64(0),
     Name |-> IF "name" \in body.has THEN body.name ELSE EmptyStr,
     Description |-> IF "description" \in body.has
                        THEN body.description ELSE EmptyStr,
     Amount |-> IF "amount" \in body.has THEN body.amount ELSE I64(0),
     Price |-> IF "price" \in body.has THEN body.price ELSE 0]

\* the binding tags of the request struct: the failed <<field, tag>> of
\* each field, in field order. `required` fails on the zero value, min and
\* max compare a number's value and a string's character count.
BindingErrors(req) ==
    (IF req.StoreID = I64(0) THEN <<"StoreID:required">>
     ELSE IF Sign(req.StoreID) < 1 THEN <<"StoreID:min">> ELSE <<>>)
    \o
    (IF req.Name = EmptyStr THEN <<"Name:required">>
     ELSE IF RuneLen(req.Name) < 1 THEN <<"Name:min">>
     ELSE IF RuneLen(req.Name) > 100 THEN <<"Name:max">> ELSE <<>>)
    \o
    (IF RuneLen(req.Description) > 1000 THEN <<"Description:max">> ELSE <<>>)
    \o
    (IF req.Amount = I64(0) THEN <<"Amount:required">>
     ELSE IF Sign(req.Amount) < 0 THEN <<"Amount:min">> ELSE <<>>)
    \o
    (IF req.Price = 0 THEN <<"Price:required">>
     ELSE IF req.Price < 0 THEN <<"Price:min">> ELSE <<>>)

\* c.ShouldBindJSON(&req): [err, req]
ShouldBindJSON(body) ==
    LET req == DecodeJSON(body)
        failed == BindingErrors(req)
    IN  IF body.kind # "object"
            THEN [err |-> NewError("invalid character"), req |-> DecodeJSON(NoBody)]
        ELSE IF failed # <<>>
            THEN [err |-> [nil |-> FALSE, is |-> {}, msg |-> failed],
                  req |-> req]
        ELSE [err |-> Nil, req |-> req]

\* CreateProductRequest.ToDomain / UpdateProductRequest.ToDomain
ToDomain(req) ==
    NewProduct(req.StoreID, req.Name,
               IF req.Description # EmptyStr
                   THEN NullString(req.Description, TRUE) ELSE NullAbsent,
               req.Amount, req.Price)

\* --------------------------------------------------------- HTTP: response
\* time.Format(time.RFC3339): the time to the second
FormatRFC3339(t) == t \div TicksPerSecond

ToProductResponse(product) ==
    [ID |-> product.ID, StoreID |-> product.StoreID, Name |-> product.Name,
     Description |-> IF product.Description.Valid
                        THEN product.Description.String ELSE EmptyStr,
     Amount |-> product.Amount, Price |-> product.Price,
     CreatedAt |-> FormatRFC3339(product.CreatedAt),
     UpdatedAt |-> FormatRFC3339(product.UpdatedAt)]

\* A response is [status, error, message, product, products, total, limit,
\* offset]: an ErrorResponse fills error and message, a ProductResponse
\* product, a ProductListResponse the last four.
Response(status, error, message, product, products, total, limit, offset) ==
    [status |-> status, error |-> error, message |-> message,
     product |-> product, products |-> products, total |-> total,
     limit |-> limit, offset |-> offset]

NoProductResponse == ToProductResponse(ZeroProduct)

ErrorResponse(status, error, message) ==
    Response(status, error, message, NoProductResponse, <<>>, 0, I64(0),
             I64(0))

ProductResponse(status, product) ==
    Response(status, "", <<>>, ToProductResponse(product), <<>>, 0, I64(0),
             I64(0))

ToProductListResponse(status, products, limit, offset) ==
    Response(status, "", <<>>, NoProductResponse,
             [i \in 1..Len(products) |-> ToProductResponse(products[i])],
             Len(products), limit, offset)

NoResponse ==
    Response(0, "", <<>>, NoProductResponse, <<>>, 0, I64(0), I64(0))

\* handleError comparing the error with the sentinels instead of unwrapping
handleErrorByIdentity(err) ==
    IF err = ErrProductNotFound
        THEN ErrorResponse(404, "product_not_found", <<"Product not found">>)
    ELSE IF err = ErrInvalidProduct
        THEN ErrorResponse(400, "invalid_product", err.msg)
    ELSE IF err = ErrDuplicateProduct
        THEN ErrorResponse(409, "duplicate_product",
                           <<"Product with this name already exists">>)
    ELSE ErrorResponse(500, "internal_server_error",
                       <<"An internal error occurred">>)

handleError(err) ==
    IF ErrorsIs(err, ErrProductNotFound)
        THEN ErrorResponse(404, "product_not_found", <<"Product not found">>)
    ELSE IF ErrorsIs(err, ErrInvalidProduct)
        THEN ErrorResponse(400, "invalid_product", err.msg)
    ELSE IF ErrorsIs(err, ErrDuplicateProduct)
        THEN ErrorResponse(409, "duplicate_product",
                           <<"Product with this name already exists">>)
    ELSE ErrorResponse(500, "internal_server_error",
                       <<"An internal error occurred">>)

\* --------------------------------------------------------- HTTP: handlers
\* A handler yields [db, resp, ucCalls, err, calls, product]: the database
\* after the request, the response, the use-case methods it invoked, the
\* error and the product the use case returned and the repository calls
\* made.
Handled(db, resp, ucCalls, err, calls, product) ==
    [db |-> db, resp |-> resp, ucCalls |-> ucCalls, err |-> err,
     calls |-> calls, product |-> product]

InvalidID ==
    ErrorResponse(400, "invalid_id", <<"Product ID must be a valid number">>)

HandleCreateProduct(db, body, fault) ==
    LET bound == ShouldBindJSON(body)
        r == CreateProduct(db, ToDomain(bound.req), fault)
    IN  IF ~bound.err.nil
            THEN Handled(db, ErrorResponse(400, "validation_error",
                                           bound.err.msg), <<>>, Nil, <<>>, ZeroProduct)
        ELSE IF ~r.err.nil
            THEN Handled(r.db, handleError(r.err), <<"CreateProduct">>,
                         r.err, r.calls, ZeroProduct)
        ELSE Handled(r.db, ProductResponse(201, r.product),
                     <<"CreateProduct">>, Nil, r.calls, r.product)

HandleGetProduct(db, idParam, fault) ==
    LET id == ParseInt(idParam)
        r == GetProduct(db, id.val, fault)
    IN  IF ~id.ok THEN Handled(db, InvalidID, <<>>, Nil, <<>>, ZeroProduct)
        ELSE IF ~r.err.nil
            THEN Handled(r.db, handleError(r.err), <<"GetProduct">>,
                         r.err, r.calls, ZeroProduct)
        ELSE Handled(r.db, ProductResponse(200, r.product), <<"GetProduct">>,
                     Nil, r.calls, r.product)

\* the limit read without the test for a positive value
QueryLimitAnyInteger(limitParam) ==
    LET l == Atoi(limitParam)
    IN  IF limitParam # <<>> /\ l.ok THEN l.val ELSE I64(10)

\* the limit and the offset the handler reads from the query string
QueryLimit(limitParam) ==
    LET l == Atoi(limitParam)
    IN  IF limitParam # <<>> /\ l.ok /\ Sign(l.val) > 0 THEN l.val
        ELSE I64(10)

QueryOffset(offsetParam) ==
    LET o == Atoi(offsetParam)
    IN  IF offsetParam # <<>> /\ o.ok /\ Sign(o.val) >= 0 THEN o.val
        ELSE I64(0)

HandleGetProducts(db, limitParam, offsetParam, order, fault) ==
    LET limit == QueryLimit(limitParam)
        offset == QueryOffset(offsetParam)
        r == GetProducts(db, limit, offset, order, fault)
    IN  IF ~r.err.nil
            THEN Handled(r.db, handleError(r.err), <<"GetProducts">>,
                         r.err, r.calls, ZeroProduct)
        ELSE Handled(r.db, ToProductListResponse(200, r.list, limit, offset),
                     <<"GetProducts">>, Nil, r.calls, ZeroProduct)

HandleUpdateProduct(db, idParam, body, fault) ==
    LET id == ParseInt(idParam)
        bound == ShouldBindJSON(body)
        r == UpdateProduct(db, id.val, ToDomain(bound.req), fault)
    IN  IF ~id.ok THEN Handled(db, InvalidID, <<>>, Nil, <<>>, ZeroProduct)
        ELSE IF ~bound.err.nil
            THEN Handled(db, ErrorResponse(400, "validation_error",
                                           bound.err.msg), <<>>, Nil, <<>>, ZeroProduct)
        ELSE IF ~r.err.nil
            THEN Handled(r.db, handleError(r.err), <<"UpdateProduct">>,
                         r.err, r.calls, ZeroProduct)
        ELSE Handled(r.db, ProductResponse(200, r.product),
                     <<"UpdateProduct">>, Nil, r.calls, r.product)

\* HandleDeleteProduct going on with id 0 after a parse error
HandleDeleteProductUnparsed(db, idParam, fault) ==
    LET id == ParseInt(idParam)
        r == DeleteProduct(db, id.val, fault)
    IN  IF ~r.err.nil
            THEN Handled(r.db, handleError(r.err), <<"DeleteProduct">>,
                         r.err, r.calls, ZeroProduct)
        ELSE Handled(r.db, ErrorResponse(204, "", <<>>), <<"DeleteProduct">>,
                     Nil, r.calls, ZeroProduct)

HandleDeleteProduct(db, idParam, fault) ==
    LET id == ParseInt(idParam)
        r == DeleteProduct(db, id.val, fault)
    IN  IF ~id.ok THEN Handled(db, InvalidID, <<>>, Nil, <<>>, ZeroProduct)
        ELSE IF ~r.err.nil
            THEN Handled(r.db, handleError(r.err), <<"DeleteProduct">>,
                         r.err, r.calls, ZeroProduct)
        ELSE Handled(r.db, ErrorResponse(204, "", <<>>), <<"DeleteProduct">>,
                     Nil, r.calls, ZeroProduct)

\* ----------------------------------------------------------------- inputs
Wide == [top |-> 0, hi |-> 1, lo |-> 0]          \* 2^31, one past the INTEGER range

P0 == <<"0">>
P1 == <<"1">>
P2 == <<"2">>
PMinus1 == <<"-", "1">>
PAbc == <<"a", "b", "c">>

\* a product every layer accepts, and a second one
Good == NewProduct(I64(1), Str(1, 0), NullAbsent, I64(1), 29990)
Other == NewProduct(I64(1), Str(1, 0), NullString(Str(1, 0), TRUE), I64(1), 29990)

\* products that pass Validate: among them a present empty description,
\* a description text whose presence flag is false and a price the store
\* rounds
ValidProducts ==
    {Good, Other,
     [Good EXCEPT !.Description = NullString(EmptyStr, TRUE)],
     [Good EXCEPT !.Description = NullString(Str(1, 0), FALSE)],
     [Good EXCEPT !.Description = NullString(Str(1001, 0), FALSE)],
     [Good EXCEPT !.Price = 4]}

\* products that break one validation rule, or two
InvalidProducts ==
    {[Good EXCEPT !.StoreID = I64(0)],
     [Good EXCEPT !.Name = EmptyStr],
     [Good EXCEPT !.Name = Str(101, 0)],
     [Good EXCEPT !.Name = Str(0, 34)],
     [Good EXCEPT !.Description = NullString(Str(1001, 0), TRUE)],
     [Good EXCEPT !.Amount = I64(-1)],
     [Good EXCEPT !.Price = 0],
     [Good EXCEPT !.Price = -1000],
     [Good EXCEPT !.StoreID = I64(-1), !.Price = 0]}

\* products that pass Validate and that the table's columns reject
UnstorableProducts == {[Good EXCEPT !.StoreID = Wide]}

Products == ValidProducts \cup InvalidProducts \cup UnstorableProducts

Ids == {I64(-1), I64(0), I64(1), I64(2), I64(MaxRows + 1)}

Limits == {I64(n) : n \in {-5, 0, 1, 10, 100, 101, 500}}
Offsets == {I64(-5), I64(0), I64(1), Wide}

AllMembers == {"store_id", "name", "description", "amount", "price"}
GoodBody == Body("object", AllMembers, I64(1), Str(1, 0), Str(1, 0), I64(1), 29990)

Bodies ==
    {GoodBody,
     [GoodBody EXCEPT !.kind = "invalid_json"],
     [GoodBody EXCEPT !.has = AllMembers \ {"store_id"}],
     [GoodBody EXCEPT !.has = AllMembers \ {"description"}],
     [GoodBody EXCEPT !.has = AllMembers \ {"description"}, !.amount = I64(0)],
     [GoodBody EXCEPT !.has = AllMembers \ {"amount"}],
     [GoodBody EXCEPT !.store_id = I64(0)],
     [GoodBody EXCEPT !.store_id = Wide],
     [GoodBody EXCEPT !.name = Str(100, 0)],
     [GoodBody EXCEPT !.name = Str(101, 0)],
     [GoodBody EXCEPT !.name = Str(0, 34)],
     [GoodBody EXCEPT !.description = Str(1001, 0)],
     [GoodBody EXCEPT !.amount = I64(0)],
     [GoodBody EXCEPT !.amount = I64(-1)],
     [GoodBody EXCEPT !.price = 0],
     [GoodBody EXCEPT !.price = 4]}

IdParams ==
    {P0, P1, P2, PMinus1, PAbc, <<"-">>, <<"1", "x">>, <<"+", "1">>,
     <<"0", "2">>,
     <<"9", "2", "2", "3", "3", "7", "2", "0", "3", "6",
       "8", "5", "4", "7", "7", "5", "8", "0", "8">>,
     <<"9", "9", "9", "9", "9", "9", "9", "9", "9", "9",
       "9", "9", "9", "9", "9", "9", "9", "9", "9", "9">>,
     <<"-", "9", "9", "9", "9", "9", "9", "9", "9", "9", "9",
       "9", "9", "9", "9", "9", "9", "9", "9", "9", "9", "x">>}

PageParams ==
    {<<>>, P0, P2, PMinus1, PAbc, <<"5", "0", "0">>,
     <<"3", "0", "0", "0", "0", "0", "0", "0", "0", "0">>,
     <<"9", "9", "9", "9", "9", "9", "9", "9", "9", "9",
       "9", "9", "9", "9", "9", "9", "9", "9", "9", "9">>}

\* the faults tried on a read by id, on a list query, on a write and on
\* a delete (a write that cannot meet a unique violation)
ReadFaults == {"none", "canceled", "deadline", "query_canceled", "down"}
ListFaults == ReadFaults \cup LateFaults \cup ScanFaults
WriteFaults == {"none"} \cup EarlyFaults \cup LateFaults
DeleteFaults == ReadFaults \cup LateFaults

\* ------------------------------------------------------------------ state
DB == [rows |-> rows, nextId |-> nextId, clock |-> clock]

NoInput ==
    [product |-> ZeroProduct, id |-> I64(0), limit |-> I64(0),
     offset |-> I64(0),
     body |-> NoBody, idParam |-> <<>>, limitParam |-> <<>>,
     offsetParam |-> <<>>, fault |-> "none"]

\* the record of one call
Record(layer, op, in, product, list, err, resp, ucCalls, calls) ==
    [layer |-> layer, op |-> op, in |-> in, product |-> product,
     list |-> list, err |-> err, resp |-> resp, ucCalls |-> ucCalls,
     calls |-> calls]

NoCall == Record("none", "", NoInput, ZeroProduct, <<>>, Nil, NoResponse,
                 <<>>, <<>>)

\* the slots of the requests the server handles at the same time, each in
\* a goroutine of its own
Requests == {1, 2}

\* one request: where it is ("none"; "received": its handler runs, up to
\* its SQL statement; "started": the server has begun the statement and
\* fixed its NOW(); "answered"), its call, what it returned, the requests
\* that were running when it arrived, the ids stored then, and the NOW()
\* of its statement
Request(pc, call, with, seen, now) ==
    [pc |-> pc, call |-> call, with |-> with, seen |-> seen, now |-> now]

NoRequest == Request("none", NoCall, {}, {}, 0)

Init ==
    /\ rows = <<>>
    /\ nextId = 1
    /\ clock = 1
    /\ created = <<>>
    /\ deleted = {}
    /\ phase = "starting"
    /\ conn = "none"
    /\ last = NoCall
    /\ inflight = [r \in Requests |-> NoRequest]

\* the history after a call that left the database db2: a new row is
\* recorded with the product the call returned, when it returned one; a
\* row replaced or deleted is dropped
NextCreated(db2, product, err) ==
    LET fresh == IF err.nil THEN (DOMAIN db2.rows) \ (DOMAIN rows) ELSE {}
        keep == {i \in (DOMAIN created) \cap (DOMAIN db2.rows) :
                    db2.rows[i] = rows[i]}
    IN  [i \in keep \cup fresh |-> IF i \in fresh THEN product ELSE created[i]]

\* the ids deleted so far, after a call that left the database db2
NextDeleted(db2) == deleted \cup ((DOMAIN rows) \ (DOMAIN db2.rows))

\* the database and the history after a repository or use-case call
Commit(r) ==
    /\ rows' = r.db.rows
    /\ nextId' = r.db.nextId
    /\ clock' = clock
    /\ created' = NextCreated(r.db, r.product, r.err)
    /\ deleted' = NextDeleted(r.db)
    /\ UNCHANGED <<phase, conn>>

\* ---------------------------------------------------------------- actions
\* the database clock advances
Tick ==
    /\ clock < MaxClock
    /\ clock' = clock + 1
    /\ UNCHANGED <<rows, nextId, created, deleted, phase, conn, last, inflight>>

\* Product.Validate is called on a product
CallValidate(p) ==
    /\ last' = Record("domain", "Validate", [NoInput EXCEPT !.product = p],
                      ZeroProduct, <<>>, Validate(p), NoResponse, <<>>, <<>>)
    /\ UNCHANGED <<rows, nextId, clock, created, deleted, phase, conn, inflight>>

\* a repository or use-case call with outcome r is recorded
Returned(layer, op, in, r) ==
    /\ Commit(r)
    /\ last' = Record(layer, op, in, r.product, r.list, r.err, NoResponse,
                      <<>>, r.calls)
    /\ UNCHANGED inflight

\* an HTTP request with outcome h is recorded
Answered(op, in, h) ==
    /\ Commit(h)
    /\ last' = Record("http", op, in, h.product, <<>>, h.err, h.resp,
                      h.ucCalls, h.calls)
    /\ UNCHANGED inflight

\* the repository is called directly
CallRepoCreate(p, f) ==
    Returned("repo", "Create", [NoInput EXCEPT !.product = p, !.fault = f],
             RepoCreate(DB, p, f))

CallRepoGetByID(id, f) ==
    Returned("repo", "GetByID", [NoInput EXCEPT !.id = id, !.fault = f],
             RepoGetByID(DB, id, f))

CallRepoGetAll(limit, offset, order, f) ==
    Returned("repo", "GetAll",
             [NoInput EXCEPT !.limit = limit, !.offset = offset, !.fault = f],
             RepoGetAll(DB, limit, offset, order, f))

CallRepoUpdate(id, p, f) ==
    Returned("repo", "Update",
             [NoInput EXCEPT !.id = id, !.product = p, !.fault = f],
             RepoUpdate(DB, id, p, f))

CallRepoDelete(id, f) ==
    Returned("repo", "Delete", [NoInput EXCEPT !.id = id, !.fault = f],
             RepoDelete(DB, id, f))

\* the use case is called directly
CallCreateProduct(p, f) ==
    Returned("usecase", "CreateProduct",
             [NoInput EXCEPT !.product = p, !.fault = f],
             CreateProduct(DB, p, f))

CallGetProduct(id, f) ==
    Returned("usecase", "GetProduct", [NoInput EXCEPT !.id = id, !.fault = f],
             GetProduct(DB, id, f))

CallGetProducts(limit, offset, order, f) ==
    Returned("usecase", "GetProducts",
             [NoInput EXCEPT !.limit = limit, !.offset = offset, !.fault = f],
             GetProducts(DB, limit, offset, order, f))

CallUpdateProduct(id, p, f) ==
    Returned("usecase", "UpdateProduct",
             [NoInput EXCEPT !.id = id, !.product = p, !.fault = f],
             UpdateProduct(DB, id, p, f))

CallDeleteProduct(id, f) ==
    Returned("usecase", "DeleteProduct",
             [NoInput EXCEPT !.id = id, !.fault = f],
             DeleteProduct(DB, id, f))

\* HTTP requests
PostProduct(body, f) ==
    Answered("POST /api/v1/products",
             [NoInput EXCEPT !.body = body, !.fault = f],
             HandleCreateProduct(DB, body, f))

GetProductByID(idParam, f) ==
    Answered("GET /api/v1/products/:id",
             [NoInput EXCEPT !.idParam = idParam, !.fault = f],
             HandleGetProduct(DB, idParam, f))

ListProducts(limitParam, offsetParam, order, f) ==
    Answered("GET /api/v1/products",
             [NoInput EXCEPT !.limitParam = limitParam,
                             !.offsetParam = offsetParam, !.fault = f],
             HandleGetProducts(DB, limitParam, offsetParam, order, f))

PutProduct(idParam, body, f) ==
    Answered("PUT /api/v1/products/:id",
             [NoInput EXCEPT !.idParam = idParam, !.body = body, !.fault = f],
             HandleUpdateProduct(DB, idParam, body, f))

DeleteProductByID(idParam, f) ==
    Answered("DELETE /api/v1/products/:id",
             [NoInput EXCEPT !.idParam = idParam, !.fault = f],
             HandleDeleteProduct(DB, idParam, f))

\* what a handler may panic with: a string, an error value, or a runtime
\* error (nil dereference, index out of range)
PanicValues == {"string", "error", "runtime.Error"}

Routes ==
    {"POST /api/v1/products", "GET /api/v1/products/:id",
     "GET /api/v1/products", "PUT /api/v1/products/:id",
     "DELETE /api/v1/products/:id"}

\* middleware.ErrorHandler on a recovered panic: a string is answered with
\* the 500 body; for any other value only Abort is called, nothing is
\* written and the response goes out with the writer's default status 200
\* and no body
ErrorHandler(recovered) ==
    IF recovered = "string"
        THEN ErrorResponse(500, "internal_server_error",
                           <<"An internal error occurred">>)
    ELSE ErrorResponse(200, "", <<>>)

\* a request on `route` whose handler panics before it has written
\* anything
PanicInHandler(route, recovered) ==
    Answered(route, [NoInput EXCEPT !.fault = "panic"],
             Handled(DB, ErrorHandler(recovered), <<>>, Nil, <<>>,
                     ZeroProduct))

\* ---------------------------------------------------------------- startup
\* how opening the connection pool ends: sql.Open fails, Ping fails, or
\* both succeed
ConnectOutcomes == {"ok", "open_failed", "ping_failed"}

\* database.NewPostgresConnection: [conn, err]
NewPostgresConnection(outcome) ==
    CASE outcome = "open_failed" ->
            [conn |-> "none",
             err |-> WrapContext("failed to open database connection",
                                 NewError("sql.Open"))]
      [] outcome = "ping_failed" ->
            [conn |-> "closed",
             err |-> WrapContext("failed to ping database", ErrBadConn)]
      [] OTHER -> [conn |-> "open", err |-> Nil]

\* main going on after a failed connection
MainConnectIgnoringError(outcome) ==
    LET r == NewPostgresConnection(outcome)
    IN  [phase |-> "connected", conn |-> r.conn]

\* main up to the wiring of the components: [phase, conn]
MainConnect(outcome) ==
    LET r == NewPostgresConnection(outcome)
    IN  IF ~r.err.nil THEN [phase |-> "fatal", conn |-> r.conn]
        ELSE [phase |-> "connected", conn |-> r.conn]

\* main opens the database connection
Connect(outcome) ==
    /\ phase = "starting"
    /\ phase' = MainConnect(outcome).phase
    /\ conn' = MainConnect(outcome).conn
    /\ UNCHANGED <<rows, nextId, clock, created, deleted, last, inflight>>

\* the server goroutine: ListenAndServe binds the address, or fails
Listen(ok) ==
    /\ phase = "connected"
    /\ phase' = IF ok THEN "serving" ELSE "fatal"
    /\ UNCHANGED <<rows, nextId, clock, created, deleted, conn, last, inflight>>

\* SIGINT or SIGTERM: the server drains its requests and main returns,
\* closing the connection; `forced` when the drain passes its deadline
Shutdown(forced) ==
    /\ phase \in {"connected", "serving"}
    /\ last = NoCall
    /\ ~forced => \A r \in Requests :
                      inflight[r].pc \notin {"received", "started"}
    /\ phase' = IF forced THEN "fatal" ELSE "stopped"
    /\ conn' = IF forced THEN conn ELSE "closed"
    /\ UNCHANGED <<rows, nextId, clock, created, deleted, last, inflight>>

StartNext ==
    \/ \E outcome \in ConnectOutcomes : Connect(outcome)
    \/ \E ok \in BOOLEAN : Listen(ok)
    \/ \E forced \in BOOLEAN : Shutdown(forced)

\* the server is up and the caller ready for a call
Idle == last = NoCall /\ phase = "serving"

\* the sequence behind products.id has handed out at most max values
Within(max) == nextId' <= max + 1

\* --------------------------------------------------------- specifications
\* inputs paired with server faults: every input on a healthy server, the
\* good input with every fault
WithFaults(inputs, good, faults) ==
    (inputs \X {"none"}) \cup ({good} \X faults)

DomainNext == \E p \in Products : CallValidate(p)

RepoNext ==
    \/ \E x \in WithFaults(ValidProducts \cup UnstorableProducts, Good,
                           WriteFaults) :
          CallRepoCreate(x[1], x[2])
    \/ \E x \in WithFaults(Ids \cup {Wide}, I64(1), ReadFaults) :
          CallRepoGetByID(x[1], x[2])
    \/ \E x \in WithFaults({I64(n) : n \in {-1, 0, 1, 2}}
                               \X {I64(n) : n \in {-1, 0, 1}},
                           <<I64(1), I64(0)>>, ListFaults) :
          \E order \in RowOrders(DB) :
              CallRepoGetAll(x[1][1], x[1][2], order, x[2])
    \/ \E x \in WithFaults((Ids \X {Good, Other})
                              \cup ({I64(1)} \X (ValidProducts
                                                 \cup UnstorableProducts)),
                           <<I64(1), Good>>, WriteFaults) :
          CallRepoUpdate(x[1][1], x[1][2], x[2])
    \/ \E x \in WithFaults(Ids \cup {Wide}, I64(1), DeleteFaults) :
          CallRepoDelete(x[1], x[2])

UseCaseNext ==
    \/ \E x \in WithFaults(Products, Good, WriteFaults) :
          CallCreateProduct(x[1], x[2])
    \/ \E x \in WithFaults(Ids \cup {Wide}, I64(1), ReadFaults) :
          CallGetProduct(x[1], x[2])
    \/ \E x \in WithFaults(Limits \X Offsets, <<I64(10), I64(0)>>, ListFaults) :
          \E order \in RowOrders(DB) :
              CallGetProducts(x[1][1], x[1][2], order, x[2])
    \/ \E x \in WithFaults((Ids \X {Good, Other}) \cup ({I64(1)} \X Products)
                              \cup ({I64(0)} \X InvalidProducts),
                           <<I64(1), Good>>, WriteFaults) :
          CallUpdateProduct(x[1][1], x[1][2], x[2])
    \/ \E x \in WithFaults(Ids \cup {Wide}, I64(1), DeleteFaults) :
          CallDeleteProduct(x[1], x[2])

HttpNext ==
    \/ \E x \in WithFaults(Bodies, GoodBody, WriteFaults) :
          PostProduct(x[1], x[2])
    \/ \E x \in WithFaults(IdParams, P1, ReadFaults) :
          GetProductByID(x[1], x[2])
    \/ \E x \in WithFaults(PageParams \X PageParams, <<<<>>, <<>>>>,
                           ListFaults) :
          \E order \in RowOrders(DB) :
              ListProducts(x[1][1], x[1][2], order, x[2])
    \/ \E x \in WithFaults((IdParams \X {GoodBody}) \cup ({P1} \X Bodies),
                           <<P1, GoodBody>>, WriteFaults) :
          PutProduct(x[1][1], x[1][2], x[2])
    \/ \E x \in WithFaults(IdParams, P1, DeleteFaults) :
          DeleteProductByID(x[1], x[2])

\* the caller takes the result and is ready for its next call
Continue ==
    /\ last # NoCall
    /\ last' = NoCall
    /\ UNCHANGED <<rows, nextId, clock, created, deleted, phase, conn, inflight>>

Next ==
    \/ StartNext
    \/ Tick
    \/ Continue
    \/ Idle /\ DomainNext
    \/ Idle /\ RepoNext /\ Within(MaxRows)
    \/ Idle /\ UseCaseNext /\ Within(MaxRows)
    \/ Idle /\ HttpNext /\ Within(MaxRows)

Spec == Init /\ [][Next]_vars

\* The row lifecycle: several rows created, read, listed, replaced and
\* deleted on a healthy server, through the repository, the use case and
\* the HTTP handlers.
RowIds == {I64(i) : i \in 1..(MaxStored + 1)}

RowIdParams == {<<Digits[i + 1]>> : i \in 1..(MaxStored + 1)}

RowsNext ==
    \/ CallRepoCreate(Good, "none")
    \/ \E id \in RowIds : CallRepoGetByID(id, "none")
    \/ \E limit \in 0..MaxStored, offset \in 0..MaxStored :
          \E order \in RowOrders(DB) :
              CallRepoGetAll(I64(limit), I64(offset), order, "none")
    \/ \E id \in RowIds : CallRepoUpdate(id, Other, "none")
    \/ \E id \in RowIds : CallRepoDelete(id, "none")
    \/ \E id \in RowIds : CallGetProduct(id, "none")
    \/ \E id \in RowIds : CallDeleteProduct(id, "none")
    \/ \E idParam \in RowIdParams : GetProductByID(idParam, "none")
    \/ \E idParam \in RowIdParams : DeleteProductByID(idParam, "none")

NextRows ==
    \/ StartNext
    \/ Tick
    \/ Continue
    \/ Idle /\ RowsNext /\ Within(MaxStored)

SpecRows == Init /\ [][NextRows]_vars

\* Product.Validate alone, on every combination of the field values below
ValidateInputs ==
    {NewProduct(storeId, name, NullString(text, valid), amount, price) :
        storeId \in {I64(-1), I64(0), I64(1), Wide},
        name \in {EmptyStr, Str(1, 0), Str(100, 0), Str(101, 0), Str(0, 33),
                  Str(0, 34), Str(1, 33)},
        text \in {EmptyStr, Str(1000, 0), Str(1001, 0), Str(0, 334)},
        valid \in BOOLEAN,
        amount \in {I64(-1), I64(0), I64(1)},
        price \in {-1000, 0, 1, 29990}}

NextValidate ==
    \/ last = NoCall /\ \E p \in ValidateInputs : CallValidate(p)
    \/ Continue

SpecValidate == Init /\ [][NextValidate]_vars

\* Concurrent requests. The server runs every request in a goroutine of
\* its own; a handler shares nothing with the others but the database, and
\* DeleteProduct and UpdateProduct each send it one statement (DELETE ...
\* WHERE id, UPDATE ... WHERE id RETURNING), which the database runs
\* atomically. A request is received, then its statement runs and the
\* answer is fixed, then the request is forgotten.
Second == NewProduct(I64(2), Str(2, 0), NullAbsent, I64(2), 19990)

\* the replacement payloads of the concurrent updates: two that differ in
\* every field, and one with a present empty description
Payloads ==
    {Other, Second, [Second EXCEPT !.Description = NullString(EmptyStr, TRUE)]}


ConcurrentIdParams == {<<Digits[i + 1]>> : i \in 1..(MaxRows + 1)}

\* the requests running now
Running == {r \in Requests : inflight[r].pc \in {"received", "started"}}

\* request r arrives
Receive(r, layer, op, in) ==
    /\ Idle
    /\ inflight[r].pc = "none"
    /\ inflight' = [inflight EXCEPT ![r] =
                       Request("received",
                               Record(layer, op, in, ZeroProduct, <<>>, Nil,
                                      NoResponse, <<>>, <<>>),
                               Running, DOMAIN rows, 0)]
    /\ UNCHANGED <<rows, nextId, clock, created, deleted, phase, conn, last>>

ReceiveDelete(r, idParam) ==
    Receive(r, "http", "DELETE /api/v1/products/:id",
            [NoInput EXCEPT !.idParam = idParam])

ReceiveUpdate(r, id, p) ==
    Receive(r, "usecase", "UpdateProduct",
            [NoInput EXCEPT !.id = id, !.product = p])

\* the handler of a DELETE request runs to its answer
ServeDelete(r) ==
    LET c == inflight[r].call
        h == HandleDeleteProduct(DB, c.in.idParam, "none")
    IN  /\ Idle
        /\ inflight[r].pc = "received"
        /\ c.op = "DELETE /api/v1/products/:id"
        /\ Commit(h)
        /\ inflight' = [inflight EXCEPT ![r] =
                           Request("answered",
                                   Record(c.layer, c.op, c.in, h.product,
                                          <<>>, h.err, h.resp, h.ucCalls,
                                          h.calls),
                                   @.with, @.seen, @.now)]
        /\ UNCHANGED last

\* the server begins the UPDATE of request r: NOW() is the start time of
\* the statement's transaction, fixed before the row is locked and written
StartUpdate(r) ==
    /\ Idle
    /\ inflight[r].pc = "received"
    /\ inflight[r].call.op = "UpdateProduct"
    /\ inflight' = [inflight EXCEPT ![r] =
                       Request("started", @.call, @.with, @.seen, clock)]
    /\ UNCHANGED <<rows, nextId, clock, created, deleted, phase, conn, last>>

\* the UPDATE of request r writes the row, after any statement that held
\* the row's lock, and UpdateProduct returns
ServeUpdate(r) ==
    LET c == inflight[r].call
        u == UpdateProduct([DB EXCEPT !.clock = inflight[r].now], c.in.id,
                           c.in.product, "none")
    IN  /\ Idle
        /\ inflight[r].pc = "started"
        /\ c.op = "UpdateProduct"
        /\ Commit(u)
        /\ inflight' = [inflight EXCEPT ![r] =
                           Request("answered",
                                   Record(c.layer, c.op, c.in, u.product,
                                          u.list, u.err, NoResponse, <<>>,
                                          u.calls),
                                   @.with, @.seen, @.now)]
        /\ UNCHANGED last

\* the answered requests are over
Forget ==
    /\ Running = {}
    /\ \E r \in Requests : inflight[r].pc = "answered"
    /\ inflight' = [r \in Requests |-> NoRequest]
    /\ UNCHANGED <<rows, nextId, clock, created, deleted, phase, conn, last>>

ConcurrentNext ==
    \/ \E r \in Requests : \E idParam \in ConcurrentIdParams :
          ReceiveDelete(r, idParam)
    \/ \E r \in Requests : \E id \in {I64(i) : i \in 1..(MaxRows + 1)} :
       \E p \in Payloads :
          ReceiveUpdate(r, id, p)
    \/ \E r \in Requests : ServeDelete(r)
    \/ \E r \in Requests : StartUpdate(r)
    \/ \E r \in Requests : ServeUpdate(r)
    \/ Forget

NextConcurrent ==
    \/ StartNext
    \/ Tick
    \/ Continue
    \/ Idle /\ (\A r \in Requests : inflight[r].pc = "none")
          /\ CallRepoCreate(Good, "none") /\ Within(MaxRows)
    \/ ConcurrentNext

SpecConcurrent == Init /\ [][NextConcurrent]_vars

\* Requests whose handler panics, next to requests that are served.
PanicNext ==
    \E route \in Routes : \E recovered \in PanicValues :
        PanicInHandler(route, recovered)

NextPanic ==
    \/ StartNext
    \/ Tick
    \/ Continue
    \/ Idle /\ PostProduct(GoodBody, "none") /\ Within(MaxRows)
    \/ Idle /\ \E idParam \in IdParams : GetProductByID(idParam, "none")
    \/ Idle /\ PanicNext

SpecPanic == Init /\ [][NextPanic]_vars

\* ----------------------------------------------------------------- claims
\* the six rules of the domain, len being the length in bytes
StoreIdRule(p) == Sign(p.StoreID) = 1
NameGivenRule(p) == RuneLen(p.Name) > 0
NameLengthRule(p) == ByteLen(p.Name) <= 100
DescriptionRule(p) ==
    ~p.Description.Valid \/ ByteLen(p.Description.String) <= 1000
AmountRule(p) == Sign(p.Amount) >= 0
PriceRule(p) == p.Price > 0

SixRules(p) ==
    /\ StoreIdRule(p)
    /\ NameGivenRule(p)
    /\ NameLengthRule(p)
    /\ DescriptionRule(p)
    /\ AmountRule(p)
    /\ PriceRule(p)

RuleMessages ==
    {"store_id must be positive", "name is required",
     "name must not exceed 100 characters",
     "description must not exceed 1000 characters",
     "amount must be non-negative", "price must be positive"}

\* the message segments of err name one of the rule messages
CarriesReason(err) == \E i \in 1..Len(err.msg) : err.msg[i] \in RuleMessages

\* C1: Validate returns no error exactly when the six rules hold (store_id
\* > 0, name non-empty, len(name) <= 100, description absent or of length
\* <= 1000, amount >= 0, price > 0), and an error for every product that
\* breaks a rule.
C1_ValidateIffSixRules ==
    last.op = "Validate" =>
        /\ last.err.nil <=> SixRules(last.in.product)
        /\ ~SixRules(last.in.product) => ~last.err.nil

\* Validate has rejected a product whose only broken rule is the
\* description length
C1_Witness ==
    /\ last.op = "Validate"
    /\ ~last.err.nil
    /\ last.in.product.Description.Valid
    /\ ByteLen(last.in.product.Description.String) > 1000
    /\ StoreIdRule(last.in.product) /\ NameGivenRule(last.in.product)
    /\ NameLengthRule(last.in.product) /\ AmountRule(last.in.product)
    /\ PriceRule(last.in.product)

\* the call recorded in `last` reached the use-case method `method`,
\* directly or through its HTTP handler
Invoked(l, method) ==
    \/ l.layer = "usecase" /\ l.op = method
    \/ l.layer = "http" /\ l.ucCalls = <<method>>

\* the product and the id that call handed to the use case
ProductGiven(l) ==
    IF l.layer = "http" THEN ToDomain(DecodeJSON(l.in.body)) ELSE l.in.product

IdGiven(l) == IF l.layer = "http" THEN ParseInt(l.in.idParam).val ELSE l.in.id

\* the price or name-length reason, when that rule is the first one broken
ReasonExpected(p, err) ==
    /\ (StoreIdRule(p) /\ NameGivenRule(p) /\ ~NameLengthRule(p))
           => "name must not exceed 100 characters" \in
                  {err.msg[i] : i \in 1..Len(err.msg)}
    /\ (StoreIdRule(p) /\ NameGivenRule(p) /\ NameLengthRule(p)
        /\ DescriptionRule(p) /\ AmountRule(p) /\ ~PriceRule(p))
           => "price must be positive" \in
                  {err.msg[i] : i \in 1..Len(err.msg)}

\* C2 as stated: for every product with price <= 0 or len(name) > 100,
\* Validate itself returns an error recognised as the domain's
\* invalid-product error and carrying the reason.
C2_ValidateReturnsInvalidInput ==
    (last.op = "Validate"
     /\ (last.in.product.Price <= 0 \/ ByteLen(last.in.product.Name) > 100))
        => /\ ErrorsIs(last.err, ErrInvalidProduct)
           /\ CarriesReason(last.err)

\* C2 amended: for every product with price <= 0 or len(name) > 100,
\* Validate returns a plain error carrying the reason, which is not
\* recognised as the invalid-product error; CreateProduct and UpdateProduct
\* (id > 0) given such a product return an error that is recognised as the
\* invalid-product error and carries the same reason.
C2_UseCaseReturnsInvalidInput ==
    LET p == ProductGiven(last)
        bad == p.Price <= 0 \/ ByteLen(p.Name) > 100
    IN  /\ (last.op = "Validate" /\ bad)
               => /\ ~last.err.nil
                  /\ ~ErrorsIs(last.err, ErrInvalidProduct)
                  /\ CarriesReason(last.err)
                  /\ ReasonExpected(p, last.err)
        /\ ((Invoked(last, "CreateProduct")
             \/ (Invoked(last, "UpdateProduct") /\ Sign(IdGiven(last)) = 1))
            /\ bad)
               => /\ ErrorsIs(last.err, ErrInvalidProduct)
                  /\ CarriesReason(last.err)
                  /\ ReasonExpected(p, last.err)

\* CreateProduct has rejected a product whose price is not positive
C2_Witness ==
    /\ last.layer = "usecase" /\ last.op = "CreateProduct"
    /\ last.in.product.Price <= 0
    /\ ErrorsIs(last.err, ErrInvalidProduct)
    /\ last.err.msg = <<"invalid product data", "price must be positive">>

\* C3: CreateProduct and UpdateProduct (id > 0) given a product that breaks
\* a validation rule return an error recognised as the invalid-product
\* error that carries the reason, make no repository call and leave the
\* stored products as they were.
C3_InvalidProductStopsAtUseCase ==
    [][((Invoked(last', "CreateProduct")
         \/ (Invoked(last', "UpdateProduct") /\ Sign(IdGiven(last')) = 1))
        /\ ~SixRules(ProductGiven(last')))
       => /\ ErrorsIs(last'.err, ErrInvalidProduct)
          /\ CarriesReason(last'.err)
          /\ last'.calls = <<>>
          /\ rows' = rows /\ nextId' = nextId]_vars

\* UpdateProduct on the id of a stored row has rejected an invalid product
C3_Witness ==
    /\ last.layer = "usecase" /\ last.op = "UpdateProduct"
    /\ ToInt(last.in.id) \in DOMAIN rows
    /\ ~SixRules(last.in.product)
    /\ ErrorsIs(last.err, ErrInvalidProduct)
    /\ last.calls = <<>>

\* C4: GetProduct, UpdateProduct and DeleteProduct with id <= 0 return an
\* invalid-input error without a repository call; a request whose path id
\* is 0 or negative is answered 400 and makes no repository call.
C4_NonPositiveIdRejected ==
    /\ (last.layer = "usecase"
        /\ last.op \in {"GetProduct", "UpdateProduct", "DeleteProduct"}
        /\ Sign(last.in.id) <= 0)
           => /\ ErrorsIs(last.err, ErrInvalidProduct)
              /\ last.calls = <<>>
    /\ (last.layer = "http"
        /\ last.op \in {"GET /api/v1/products/:id",
                        "PUT /api/v1/products/:id",
                        "DELETE /api/v1/products/:id"}
        /\ ParseInt(last.in.idParam).ok
        /\ Sign(ParseInt(last.in.idParam).val) <= 0)
           => /\ last.resp.status = 400
              /\ last.calls = <<>>

\* GET /api/v1/products/0 has been answered 400 by the use case
C4_Witness ==
    /\ last.layer = "http" /\ last.op = "GET /api/v1/products/:id"
    /\ last.in.idParam = P0
    /\ last.ucCalls = <<"GetProduct">>
    /\ last.resp.status = 400
    /\ last.calls = <<>>

\* C5: for every limit and offset GetProducts calls repository GetAll
\* exactly once, with limit' = 10 if limit <= 0, 100 if limit > 100, else
\* limit, and offset' = 0 if offset < 0, else offset, so with
\* 1 <= limit' <= 100 and offset' >= 0, and it returns an error only when
\* the repository does.
C5_PaginationNormalized ==
    (last.layer = "usecase" /\ last.op = "GetProducts")
        => /\ Len(last.calls) = 1
           /\ last.calls[1].method = "GetAll"
           /\ last.calls[1].limit =
                 (IF Leq64(last.in.limit, I64(0)) THEN I64(10)
                  ELSE IF Less64(I64(100), last.in.limit) THEN I64(100)
                  ELSE last.in.limit)
           /\ last.calls[1].offset =
                 (IF Less64(last.in.offset, I64(0)) THEN I64(0)
                  ELSE last.in.offset)
           /\ Leq64(I64(1), last.calls[1].limit)
           /\ Leq64(last.calls[1].limit, I64(100))
           /\ Leq64(I64(0), last.calls[1].offset)
           /\ (last.in.fault = "none" => last.err.nil)

\* GetProducts(0, -5) has queried the repository with limit 10, offset 0
C5_Witness ==
    /\ last.layer = "usecase" /\ last.op = "GetProducts"
    /\ last.in.limit = I64(0) /\ last.in.offset = I64(-5)
    /\ last.calls # <<>>
    /\ last.calls[1].limit = I64(10) /\ last.calls[1].offset = I64(0)
    /\ last.err.nil

\* C6: the status of an error answer follows the kind of the use case's
\* error, wrapped or not: invalid input 400, not found 404 with code
\* product_not_found, duplicate 409, anything else 500 with the fixed
\* generic message and no text of the error.
C6_StatusFollowsErrorKind ==
    (last.layer = "http" /\ ~last.err.nil)
        => LET kinds == last.err.is
               known == {"ErrInvalidProduct", "ErrProductNotFound",
                         "ErrDuplicateProduct"}
           IN  /\ "ErrInvalidProduct" \in kinds => last.resp.status = 400
               /\ "ErrProductNotFound" \in kinds
                     => /\ last.resp.status = 404
                        /\ last.resp.error = "product_not_found"
               /\ "ErrDuplicateProduct" \in kinds => last.resp.status = 409
               /\ kinds \cap known = {}
                     => /\ last.resp.status = 500
                        /\ last.resp.message = <<"An internal error occurred">>
                        /\ \A i \in 1..Len(last.err.msg) :
                              last.err.msg[i] # last.resp.message[1]

\* a duplicate error wrapped by CreateProduct has been answered 409
C6_Witness ==
    /\ last.layer = "http" /\ last.op = "POST /api/v1/products"
    /\ "ErrDuplicateProduct" \in last.err.is
    /\ Len(last.err.msg) > 1
    /\ last.resp.status = 409

\* the shape of a request body as the request DTO is specified: store_id
\* required >= 1, name required of 1 to 100 characters, description of at
\* most 1000 characters or absent, amount required >= 0, price required > 0
ShapeOk(body) ==
    /\ body.kind = "object"
    /\ {"store_id", "name", "amount", "price"} \subseteq body.has
    /\ Sign(body.store_id) = 1
    /\ RuneLen(body.name) >= 1 /\ RuneLen(body.name) <= 100
    /\ "description" \in body.has => RuneLen(body.description) <= 1000
    /\ Sign(body.amount) >= 0
    /\ body.price > 0

HasPathId(l) ==
    l.op \in {"GET /api/v1/products/:id", "PUT /api/v1/products/:id",
              "DELETE /api/v1/products/:id"}

HasBody(l) ==
    l.op \in {"POST /api/v1/products", "PUT /api/v1/products/:id"}

\* C7: a request whose path id does not parse as a base-10 integer, or
\* whose body fails JSON decoding or shape validation, is answered 400
\* with an error body, and the use case is not invoked.
C7_BadRequestStopsAtHandler ==
    (last.layer = "http"
     /\ \/ HasPathId(last) /\ ~ParseInt(last.in.idParam).ok
        \/ HasBody(last) /\ ~ShapeOk(last.in.body))
        => /\ last.resp.status = 400
           /\ last.resp.error # ""
           /\ last.resp.message # <<>>
           /\ last.ucCalls = <<>>
           /\ last.calls = <<>>

\* a POST without store_id has been answered 400 before the use case
C7_Witness ==
    /\ last.layer = "http" /\ last.op = "POST /api/v1/products"
    /\ last.in.body.kind = "object"
    /\ "store_id" \notin last.in.body.has
    /\ last.resp.status = 400 /\ last.resp.error = "validation_error"
    /\ last.ucCalls = <<>>

\* C8: a create or update body with store_id >= 1, a name of 1 to 100
\* characters, a description of at most 1000 characters or none, amount
\* >= 0 and price > 0 passes binding: the use case is invoked, and when
\* the repository succeeds the answer is 201 for POST and 200 for PUT.
C8_SpecifiedShapePassesBinding ==
    (last.layer = "http" /\ HasBody(last) /\ ShapeOk(last.in.body)
     /\ (HasPathId(last) => ParseInt(last.in.idParam).ok))
        => /\ last.ucCalls # <<>>
           /\ (last.calls # <<>> /\ last.err.nil)
                 => last.resp.status =
                        (IF last.op = "POST /api/v1/products" THEN 201 ELSE 200)

\* C9: GetByID of an id that Create returned, the row not updated or
\* deleted since, yields the record Create returned, equal in every field.
C9_CreateThenGetByID ==
    (/\ \/ last.layer = "repo" /\ last.op = "GetByID"
        \/ last.layer = "usecase" /\ last.op = "GetProduct"
     /\ last.err.nil
     /\ ToInt(last.in.id) \in DOMAIN created)
        => last.product = created[ToInt(last.in.id)]

\* GetByID has read a row whose price the store had rounded on Create
C9_Witness ==
    /\ last.layer = "repo" /\ last.op = "GetByID"
    /\ last.err.nil
    /\ ToInt(last.in.id) \in DOMAIN created
    /\ last.product.ID = I64(1)
    /\ last.product.Price = 0
    /\ last.product.CreatedAt > 0

\* C10: the record Create returns for an accepted product has a non-zero
\* id, non-zero created_at and updated_at, and store_id, name, description
\* (value and presence flag), amount and price equal to the input's.
C10_CreateReturnsInput ==
    (last.layer = "repo" /\ last.op = "Create" /\ last.err.nil)
        => /\ last.product.ID # I64(0)
           /\ last.product.CreatedAt # 0 /\ last.product.UpdatedAt # 0
           /\ last.product.StoreID = last.in.product.StoreID
           /\ last.product.Name = last.in.product.Name
           /\ last.product.Description = last.in.product.Description
           /\ last.product.Amount = last.in.product.Amount
           /\ last.product.Price = last.in.product.Price

\* the id a call on one product was made with, and whether the call reads
\* or deletes that product
ReadsById(l) ==
    \/ l.layer = "repo" /\ l.op = "GetByID"
    \/ l.layer = "usecase" /\ l.op = "GetProduct"
    \/ l.layer = "http" /\ l.op = "GET /api/v1/products/:id"

DeletesById(l) ==
    \/ l.layer = "repo" /\ l.op = "Delete"
    \/ l.layer = "usecase" /\ l.op = "DeleteProduct"
    \/ l.layer = "http" /\ l.op = "DELETE /api/v1/products/:id"

\* the call is one the server answered, and it took place in this step
CallMade(l0, l1) == l0 = NoCall /\ l1 # NoCall /\ l1.in.fault = "none"

\* C11: once Delete(id) has succeeded the id has no row in any later
\* state, whatever is created, replaced or deleted meanwhile, and every
\* later GetByID(id) and Delete(id) the database answers returns NotFound
\* (status 404 over HTTP).
C11_DeletedStaysGone ==
    [][/\ \A i \in deleted : i \notin DOMAIN rows /\ i \notin DOMAIN rows'
       /\ (CallMade(last, last')
           /\ (ReadsById(last') \/ DeletesById(last'))
           /\ FitsInteger(IdGiven(last'))
           /\ ToInt(IdGiven(last')) \in deleted)
              => /\ ErrorsIs(last'.err, ErrProductNotFound)
                 /\ last'.layer = "http" => last'.resp.status = 404
                 /\ rows' = rows]_vars

\* DELETE of an id deleted before has been answered 404, a row created
\* after that deletion being stored
C11_Witness ==
    /\ last.layer = "http" /\ last.op = "DELETE /api/v1/products/:id"
    /\ last.in.idParam = P1
    /\ 1 \in deleted
    /\ 2 \in DOMAIN rows
    /\ rows[2].CreatedAt > 1
    /\ last.resp.status = 404

\* the call replaced a product: repository Update, or UpdateProduct or PUT
\* having reached it
ReplacesById(l) ==
    \/ l.layer = "repo" /\ l.op = "Update"
    \/ Invoked(l, "UpdateProduct") /\ l.calls # <<>>

\* C12: every stored product has updated_at >= created_at, and a
\* successful Update(id, replacement) keeps id and created_at of the row,
\* makes store_id, name, description, amount and price those of the
\* replacement, and sets updated_at no earlier than it was.
C12_UpdateReplacesFields ==
    [][/\ \A i \in DOMAIN rows' : rows'[i].UpdatedAt >= rows'[i].CreatedAt
       /\ (CallMade(last, last') /\ ReplacesById(last') /\ last'.err.nil)
              => LET id == ToInt(IdGiven(last'))
                     p == ProductGiven(last')
                 IN  /\ id \in DOMAIN rows /\ id \in DOMAIN rows'
                     /\ rows'[id].ID = rows[id].ID
                     /\ rows'[id].CreatedAt = rows[id].CreatedAt
                     /\ rows'[id].StoreID = p.StoreID
                     /\ rows'[id].Name = p.Name
                     /\ rows'[id].Description = p.Description
                     /\ rows'[id].Amount = p.Amount
                     /\ rows'[id].Price = p.Price
                     /\ rows'[id].UpdatedAt >= rows[id].UpdatedAt]_vars

\* a product the domain and the table's columns accept
Storable(p) == SixRules(p) /\ ColumnError(p.StoreID, p.Name, p.Amount).nil

\* the call asks the repository or the use case for the product id,
\* id > 0, to read, replace (by a storable product) or delete it
AsksById(l) ==
    /\ l.layer \in {"repo", "usecase"}
    /\ l.op \in {"GetByID", "Update", "Delete",
                 "GetProduct", "UpdateProduct", "DeleteProduct"}
    /\ Sign(l.in.id) = 1
    /\ l.op \in {"Update", "UpdateProduct"} => Storable(l.in.product)

\* C13: GetByID, Update and Delete on an id that has no row return
\* NotFound, the use case hands that very error on, and the stored
\* products are the same after the call as before it.
C13_MissingRowIsNotFound ==
    [][(CallMade(last, last') /\ AsksById(last')
        /\ \A i \in DOMAIN rows : I64(i) # last'.in.id)
          => /\ last'.err = ErrProductNotFound
             /\ rows' = rows]_vars

\* the call stored a product: Create or Update of the repository, called
\* directly or by the use case
StoresProduct(l) ==
    /\ l.layer \in {"repo", "usecase"}
    /\ l.op \in {"Create", "Update", "CreateProduct", "UpdateProduct"}
    /\ l.calls # <<>>
    /\ l.err.nil

\* C14: a product created or updated with a present empty description is
\* stored, returned and read back with a present empty description, and
\* one with an absent description with an absent one.
C14_AbsentAndEmptyPreserved ==
    [][(CallMade(last, last') /\ StoresProduct(last')
        /\ last'.in.product.Description
               \in {NullAbsent, NullString(EmptyStr, TRUE)})
          => LET id == ToInt(last'.product.ID)
             IN  /\ id \in DOMAIN rows'
                 /\ rows'[id].Description = last'.in.product.Description
                 /\ last'.product.Description = last'.in.product.Description
                 /\ RepoGetByID([rows |-> rows', nextId |-> nextId',
                                 clock |-> clock'], I64(id), "none")
                        .product.Description = last'.in.product.Description]_vars

\* the response's product shows the stored row, the times to the second
Mirrors(shown, row) ==
    /\ shown.ID = row.ID
    /\ shown.StoreID = row.StoreID
    /\ shown.Name = row.Name
    /\ shown.Amount = row.Amount
    /\ shown.Price = row.Price
    /\ shown.CreatedAt = FormatRFC3339(row.CreatedAt)
    /\ shown.UpdatedAt = FormatRFC3339(row.UpdatedAt)
    /\ shown.Description =
          (IF row.Description.Valid THEN row.Description.String ELSE EmptyStr)

\* C15: a POST of a valid product without description, answered by the
\* database, gets 201 with a product whose id is positive, whose fields
\* are those of the stored row and whose description is the empty string;
\* every product of a response whose row has no description shows "".
C15_PostWithoutDescription ==
    /\ (last.layer = "http" /\ last.op = "POST /api/v1/products"
        /\ last.in.fault = "none"
        /\ ShapeOk(last.in.body) /\ "description" \notin last.in.body.has
        /\ Storable(ToDomain(DecodeJSON(last.in.body))))
          => /\ last.resp.status = 201
             /\ Sign(last.resp.product.ID) = 1
             /\ ToInt(last.resp.product.ID) \in DOMAIN rows
             /\ Mirrors(last.resp.product,
                        rows[ToInt(last.resp.product.ID)])
             /\ last.resp.product.Description = EmptyStr
    /\ (last.layer = "http" /\ last.resp.status \in {200, 201}
        /\ (HasBody(last) \/ HasPathId(last)))
          => (~last.product.Description.Valid
                 => last.resp.product.Description = EmptyStr)

\* the value of a query parameter that is a decimal integer in the range
\* of int, and `none` for every other text
QueryValue(param, none) ==
    IF ParseInt(param).ok THEN ParseInt(param).val ELSE none

\* C16: GET /api/v1/products answered by the database is answered 200
\* whatever its limit and offset parameters are: a limit that is absent,
\* not an integer, out of the range of int or not positive is replaced by
\* 10, an offset that is absent, not an integer, out of range or negative
\* by 0, every other value is handed to the use case as it is (the
\* response repeats it), and the repository is queried with that value
\* clamped by the use case.
C16_PaginationParametersLenient ==
    (last.layer = "http" /\ last.op = "GET /api/v1/products"
     /\ last.in.fault = "none")
        => LET l == QueryValue(last.in.limitParam, I64(0))
               o == QueryValue(last.in.offsetParam, I64(-1))
               limit == IF Less64(I64(0), l) THEN l ELSE I64(10)
               offset == IF Leq64(I64(0), o) THEN o ELSE I64(0)
           IN  /\ last.resp.status = 200
               /\ last.err.nil
               /\ last.ucCalls = <<"GetProducts">>
               /\ last.resp.limit = limit
               /\ last.resp.offset = offset
               /\ Len(last.calls) = 1
               /\ last.calls[1].limit =
                     (IF Less64(I64(100), limit) THEN I64(100) ELSE limit)
               /\ last.calls[1].offset = offset

\* GET /api/v1/products?limit=0&offset=-1 has been answered 200 with the
\* defaults, a row being stored
C16_Witness ==
    /\ last.layer = "http" /\ last.op = "GET /api/v1/products"
    /\ last.in.limitParam = P0 /\ last.in.offsetParam = PMinus1
    /\ last.resp.status = 200
    /\ last.resp.limit = I64(10) /\ last.resp.offset = I64(0)
    /\ last.resp.total = 1

\* the use-case methods, the repository method each one calls, and
\* whether the input of the call recorded in l passes the method's checks
UseCaseMethods ==
    {"CreateProduct", "GetProduct", "GetProducts", "UpdateProduct",
     "DeleteProduct"}

RepoMethodOf(method) ==
    CASE method = "CreateProduct" -> "Create"
      [] method = "GetProduct" -> "GetByID"
      [] method = "GetProducts" -> "GetAll"
      [] method = "UpdateProduct" -> "Update"
      [] method = "DeleteProduct" -> "Delete"

ChecksPass(l, method) ==
    CASE method = "CreateProduct" -> SixRules(ProductGiven(l))
      [] method = "GetProducts" -> TRUE
      [] method = "UpdateProduct" ->
            Sign(IdGiven(l)) = 1 /\ SixRules(ProductGiven(l))
      [] OTHER -> Sign(IdGiven(l)) = 1

\* C17: a use-case method makes exactly one repository call, of its own
\* repository method, when its input passes its checks, and none when it
\* rejects the input; whether that call succeeds or fails, on a server
\* fault too, no second call follows.
C17_OneRepositoryCall ==
    \A method \in UseCaseMethods :
        Invoked(last, method)
            => /\ Len(last.calls) <= 1
               /\ ChecksPass(last, method)
                     => /\ Len(last.calls) = 1
                        /\ last.calls[1].method = RepoMethodOf(method)
               /\ ~ChecksPass(last, method)
                     => /\ last.calls = <<>>
                        /\ ErrorsIs(last.err, ErrInvalidProduct)

\* DeleteProduct has returned the error of a failed connection after one
\* repository call
C17_Witness ==
    /\ last.layer = "usecase" /\ last.op = "DeleteProduct"
    /\ last.in.fault = "down"
    /\ ErrorsIs(last.err, ErrBadConn)
    /\ Len(last.calls) = 1

\* the arrangements of all stored ids, most recently created first
NewestFirst ==
    LET n == Cardinality(DOMAIN rows)
    IN  {o \in [1..n -> DOMAIN rows] :
            /\ \A i \in DOMAIN rows : \E k \in 1..n : o[k] = i
            /\ \A k \in 1..(n - 1) :
                  rows[o[k]].CreatedAt >= rows[o[k + 1]].CreatedAt}

\* C18: GetAll(limit, offset) with limit >= 0 and offset >= 0, answered
\* by the database, returns no error and the rows at positions
\* offset + 1 .. offset + limit (as far as they exist) of the stored rows
\* arranged by created_at, most recent first; it is the empty list when
\* the table is empty or the window lies past the last row.
C18_GetAllNewestFirstWindow ==
    (last.layer = "repo" /\ last.op = "GetAll" /\ last.in.fault = "none"
     /\ Leq64(I64(0), last.in.limit) /\ Leq64(I64(0), last.in.offset)
     /\ FitsInteger(last.in.limit) /\ FitsInteger(last.in.offset))
        => LET n == Cardinality(DOMAIN rows)
               from == Min(n, ToInt(last.in.offset))
               to == Min(n, from + ToInt(last.in.limit))
           IN  /\ last.err.nil
               /\ Len(last.list) = to - from
               /\ \E o \in NewestFirst :
                     \A k \in 1..(to - from) : last.list[k] = rows[o[from + k]]

\* GetAll(1, 1) has returned the older of two rows created at different
\* times
C18_Witness ==
    /\ last.layer = "repo" /\ last.op = "GetAll"
    /\ last.in.limit = I64(1) /\ last.in.offset = I64(1)
    /\ DOMAIN rows = {1, 2}
    /\ rows[2].CreatedAt > rows[1].CreatedAt
    /\ last.list = <<rows[1]>>

\* C19: a repository call during which the context is cancelled or its
\* deadline passes returns an error, and that error is neither NotFound
\* nor Duplicate at the repository, at the use case or at the handler, so
\* the request is answered neither 404 nor 409 (it is answered 500).
C19_CancellationIsNotNotFound ==
    (last.in.fault \in ContextFaults /\ last.calls # <<>>)
        => /\ ~last.err.nil
           /\ ~ErrorsIs(last.err, ErrProductNotFound)
           /\ ~ErrorsIs(last.err, ErrDuplicateProduct)
           /\ last.layer = "http"
                 => /\ last.resp.status \notin {404, 409}
                    /\ last.resp.status = 500

\* GET of a stored product whose deadline passed during the query has
\* been answered 500
C19_Witness ==
    /\ last.layer = "http" /\ last.op = "GET /api/v1/products/:id"
    /\ last.in.fault = "deadline"
    /\ last.in.idParam = P1 /\ 1 \in DOMAIN rows
    /\ ErrorsIs(last.err, ErrDeadlineExceeded)
    /\ last.resp.status = 500

\* main has given up at startup: the connection was not opened, or was
\* closed again after the failed ping
StartupFailed == phase = "fatal" /\ conn \in {"none", "closed"}

\* C20: the server accepts requests only once the database connection
\* has been opened and pinged: it starts serving from the connected state
\* with the connection open, and every call is answered while serving;
\* when the connection cannot be established the process is dead at
\* startup: nothing has been stored or answered and nothing ever is.
C20_ServesOnlyAfterConnect ==
    [][/\ phase' = "serving" => conn' = "open"
       /\ (phase' = "serving" /\ phase # "serving")
              => phase = "connected" /\ conn = "open"
       /\ (last' # last /\ last' # NoCall)
              => phase = "serving" /\ conn = "open"
       /\ (phase = "starting" /\ phase' = "fatal") => StartupFailed'
       /\ StartupFailed
              => /\ last = NoCall /\ rows = <<>> /\ nextId = 1
                 /\ last' = last /\ rows' = rows /\ nextId' = nextId
                 /\ phase' = phase /\ conn' = conn]_vars

\* the ping has failed, main has closed the connection and exited, and
\* time has passed since without a request being answered
C20_Witness ==
    /\ phase = "fatal" /\ conn = "closed"
    /\ clock > 1
    /\ last = NoCall /\ rows = <<>>

\* CreateProduct, called directly, has returned the error of a failed
\* repository Create
CreateFailedInRepository(l) ==
    /\ l.layer = "usecase" /\ l.op = "CreateProduct"
    /\ l.calls # <<>>
    /\ ~l.err.nil

\* C21 as stated: when repository Create fails, CreateProduct returns a
\* Duplicate error unchanged, without the generic context, and every
\* other repository error wrapped with that context.
C21_DuplicateReturnedUnchanged ==
    CreateFailedInRepository(last)
        => IF last.in.fault = "unique"
               THEN last.err = ErrDuplicateProduct
               ELSE /\ Head(last.err.msg) = "failed to create product"
                    /\ ~ErrorsIs(last.err, ErrDuplicateProduct)

\* C21 amended: when repository Create fails, CreateProduct returns the
\* repository's error wrapped with the generic context whatever its
\* kind; the wrapping keeps the kind, so a Duplicate error is still
\* recognised as Duplicate (its text following the context) and no other
\* error is recognised as Duplicate, NotFound or InvalidInput.
C21_CreateErrorWrappedKindIntact ==
    CreateFailedInRepository(last)
        => /\ Head(last.err.msg) = "failed to create product"
           /\ Len(last.err.msg) >= 2
           /\ last.err # ErrDuplicateProduct
           /\ ErrorsIs(last.err, ErrDuplicateProduct)
                 <=> last.in.fault = "unique"
           /\ last.in.fault = "unique"
                 => last.err.msg = <<"failed to create product">>
                                      \o ErrDuplicateProduct.msg
           /\ ~ErrorsIs(last.err, ErrProductNotFound)
           /\ ~ErrorsIs(last.err, ErrInvalidProduct)

\* CreateProduct has returned the repository's Duplicate error inside the
\* generic context
C21_Witness ==
    /\ CreateFailedInRepository(last)
    /\ last.in.fault = "unique"
    /\ ErrorsIs(last.err, ErrDuplicateProduct)
    /\ Len(last.err.msg) = 2

\* a create or update request whose path id, if any, parses and whose
\* body has every field but the name accepted by all layers
OtherFieldsValid(l) ==
    /\ l.layer = "http" /\ HasBody(l)
    /\ HasPathId(l) => ParseInt(l.in.idParam).ok
    /\ l.in.body.kind = "object"
    /\ {"store_id", "name", "amount", "price"} \subseteq l.in.body.has
    /\ Sign(l.in.body.store_id) = 1 /\ FitsInteger(l.in.body.store_id)
    /\ "description" \in l.in.body.has
          => ByteLen(l.in.body.description) <= 1000
    /\ Sign(l.in.body.amount) = 1 /\ FitsInteger(l.in.body.amount)
    /\ l.in.body.price > 0

\* the request was rejected by binding, or by Validate in the use case
RejectedByBinding(l) == l.resp.status = 400 /\ l.ucCalls = <<>>
RejectedByValidate(l) ==
    l.ucCalls # <<>> /\ l.calls = <<>> /\ CarriesReason(l.err)

\* C22: a request whose name has 1 to 100 characters, however many bytes
\* they take, and whose other fields are valid is rejected neither by
\* binding nor by Validate; one whose name has more than 100 characters
\* is rejected; binding and Validate agree: no name passes binding and is
\* then rejected by Validate.
C22_NameLengthInCharacters ==
    OtherFieldsValid(last)
        => LET n == RuneLen(last.in.body.name)
           IN  /\ (n >= 1 /\ n <= 100)
                     => ~RejectedByBinding(last) /\ ~RejectedByValidate(last)
               /\ n > 100
                     => RejectedByBinding(last) \/ RejectedByValidate(last)
               /\ ~RejectedByValidate(last)

\* the rules a product breaks, numbered in the order store_id, empty
\* name, name length, description length, amount, price, and the message
\* of each
BrokenRules(p) ==
    {i \in 1..6 :
        \/ i = 1 /\ ~StoreIdRule(p)
        \/ i = 2 /\ ~NameGivenRule(p)
        \/ i = 3 /\ ~NameLengthRule(p)
        \/ i = 4 /\ ~DescriptionRule(p)
        \/ i = 5 /\ ~AmountRule(p)
        \/ i = 6 /\ ~PriceRule(p)}

RuleMessage ==
    <<"store_id must be positive", "name is required",
      "name must not exceed 100 characters",
      "description must not exceed 1000 characters",
      "amount must be non-negative", "price must be positive">>

\* C23: for a product that breaks one rule or several, the message of
\* Validate's error is the message of the first rule broken in the order
\* store_id, empty name, name length, description length, amount, price.
C23_FirstBrokenRuleMessage ==
    (last.op = "Validate" /\ BrokenRules(last.in.product) # {})
        => LET first == CHOOSE i \in BrokenRules(last.in.product) :
                            \A j \in BrokenRules(last.in.product) : i <= j
           IN  last.err.msg = <<RuleMessage[first]>>

\* Validate has named the name length for a product that also breaks the
\* description, amount and price rules
C23_Witness ==
    /\ last.op = "Validate"
    /\ BrokenRules(last.in.product) = {3, 4, 5, 6}
    /\ last.err.msg = <<"name must not exceed 100 characters">>

\* C24: the limit and offset fields of a list response are the limit and
\* offset of the repository query made for it, whatever the limit and
\* offset query parameters are.
C24_ListResponseShowsAppliedWindow ==
    (last.layer = "http" /\ last.op = "GET /api/v1/products"
     /\ last.resp.status = 200)
        => /\ Len(last.calls) = 1
           /\ last.calls[1].method = "GetAll"
           /\ last.resp.limit = last.calls[1].limit
           /\ last.resp.offset = last.calls[1].offset

\* the domain rules read on a stored row
RowRules(row) ==
    /\ Sign(row.StoreID) = 1
    /\ RuneLen(row.Name) >= 1 /\ RuneLen(row.Name) <= 100
    /\ row.Description.Valid => RuneLen(row.Description.String) <= 1000
    /\ Sign(row.Amount) >= 0
    /\ row.Price > 0

\* C25: the row a successful CreateProduct or UpdateProduct has stored
\* satisfies the domain rules as stored: store_id > 0, a name of 1 to
\* 100 characters, description absent or of at most 1000 characters,
\* amount >= 0 and price > 0 after the rounding to two decimals.
C25_StoredRowsSatisfyRules ==
    ((Invoked(last, "CreateProduct") \/ Invoked(last, "UpdateProduct"))
     /\ last.err.nil)
        => /\ ToInt(last.product.ID) \in DOMAIN rows
           /\ RowRules(rows[ToInt(last.product.ID)])

\* C26: with the database answering, CreateProduct, and UpdateProduct on
\* the id of a stored row, succeed for every product that passes
\* Validate, whatever its store_id, amount and price; over HTTP the
\* answer is 201 or 200, never 500.
C26_ValidProductCanBeStored ==
    (/\ \/ Invoked(last, "CreateProduct")
        \/ /\ Invoked(last, "UpdateProduct")
           /\ FitsInteger(IdGiven(last))
           /\ ToInt(IdGiven(last)) \in DOMAIN rows
     /\ last.in.fault = "none"
     /\ Validate(ProductGiven(last)).nil)
        => /\ last.err.nil
           /\ last.layer = "http" => last.resp.status \in {200, 201}

\* the ids of the products of a list
ListIds(list) == {list[i].ID : i \in DOMAIN list}

\* the page GetAll(limit, k * limit) when the server returns the rows in
\* the order `order`
PageAt(limit, k, order) ==
    RepoGetAll(DB, I64(limit), I64(k * limit), order, "none").list

\* C27: with no write in between, the pages GetAll(L, 0), GetAll(L, L),
\* GetAll(L, 2L), ... are pairwise disjoint and together hold every stored
\* row exactly once, whatever order the server gives to rows of equal
\* created_at in each of the queries.
C27_PagesPartitionRows ==
    \A L \in 1..MaxStored :
        \A f \in [0..Cardinality(DOMAIN rows) -> RowOrders(DB)] :
            /\ \A j, k \in DOMAIN f :
                  j # k => ListIds(PageAt(L, j, f[j]))
                               \cap ListIds(PageAt(L, k, f[k])) = {}
            /\ UNION {ListIds(PageAt(L, k, f[k])) : k \in DOMAIN f}
                  = {I64(i) : i \in DOMAIN rows}
            /\ \A k \in DOMAIN f :
                  Cardinality(ListIds(PageAt(L, k, f[k])))
                      = Len(PageAt(L, k, f[k]))

\* request r1 was still running when r2 arrived, both are answered, both
\* are the operation op on the same id, and the row was stored when r2
\* arrived
Overlapped(r1, r2, op) ==
    /\ r1 # r2
    /\ inflight[r1].pc = "answered" /\ inflight[r2].pc = "answered"
    /\ r1 \in inflight[r2].with
    /\ inflight[r1].call.op = op /\ inflight[r2].call.op = op
    /\ IdGiven(inflight[r1].call) = IdGiven(inflight[r2].call)
    /\ FitsInteger(IdGiven(inflight[r2].call))
    /\ ToInt(IdGiven(inflight[r2].call)) \in inflight[r2].seen

\* C28: when two DELETE requests for the same stored id run concurrently
\* and the database answers, one of them is answered 204 and the other
\* 404 product_not_found, in whichever order their statements run.
C28_ConcurrentDeletesOneWins ==
    \A r1, r2 \in Requests :
        Overlapped(r1, r2, "DELETE /api/v1/products/:id")
            => \/ /\ inflight[r1].call.resp.status = 204
                  /\ inflight[r2].call.resp.status = 404
                  /\ inflight[r2].call.resp.error = "product_not_found"
               \/ /\ inflight[r2].call.resp.status = 204
                  /\ inflight[r1].call.resp.status = 404
                  /\ inflight[r1].call.resp.error = "product_not_found"

\* two overlapping deletes of a stored id are answered, the one that
\* arrived first with 404
C28_Witness ==
    \E r1, r2 \in Requests :
        /\ Overlapped(r1, r2, "DELETE /api/v1/products/:id")
        /\ inflight[r1].call.resp.status = 404
        /\ inflight[r2].call.resp.status = 204

\* row carries the five replaced fields of the payload p
HoldsPayload(row, p) ==
    /\ row.StoreID = p.StoreID
    /\ row.Name = p.Name
    /\ row.Description = p.Description
    /\ row.Amount = p.Amount
    /\ row.Price = p.Price

\* C29: when two UpdateProduct calls for the same stored id run
\* concurrently, the row stored afterwards carries store_id, name,
\* description, amount and price of one of the two payloads, never a mix,
\* each call returns the row with the fields of its own payload, and one
\* of the two returned rows is the stored one.
C29_ConcurrentUpdatesOneWins ==
    \A r1, r2 \in Requests :
        Overlapped(r1, r2, "UpdateProduct")
            => LET id == ToInt(IdGiven(inflight[r1].call))
                   c1 == inflight[r1].call
                   c2 == inflight[r2].call
               IN  /\ c1.err.nil /\ c2.err.nil
                   /\ id \in DOMAIN rows
                   /\ \/ HoldsPayload(rows[id], c1.in.product)
                      \/ HoldsPayload(rows[id], c2.in.product)
                   /\ HoldsPayload(c1.product, c1.in.product)
                   /\ HoldsPayload(c2.product, c2.in.product)
                   /\ rows[id] \in {c1.product, c2.product}

\* C30: a request whose handler panics, whatever the panic value, is
\* answered with status 500 and the internal_server_error body.
C30_EveryPanicAnswered500 ==
    (last.layer = "http" /\ last.in.fault = "panic")
        => last.resp = ErrorResponse(500, "internal_server_error",
                                     <<"An internal error occurred">>)
====
